---- MODULE Spec2Model ----
(***************************************************************************)
(* A model of the OmniVision ov13b10 sensor driver                         *)
(* (drivers/media/i2c/ov13b10.c): register access, best-fit mode           *)
(* selection, format negotiation, the control handler, the stream and      *)
(* power state machines and the runtime-PM reference count they use.       *)
(***************************************************************************)
EXTENDS Integers, Sequences, FiniteSets, TLC

(***************************************************************************)
(* Program constants (ov13b10.c:40-74).                                    *)
(***************************************************************************)
CHIP_ID == \h560d42
OV13B10_REG_CHIP_ID == \h300a
OV13B10_REG_CTRL_MODE == \h0100
OV13B10_MODE_SW_STANDBY == \h0
OV13B10_MODE_STREAMING == \h1
OV13B10_REG_EXPOSURE == \h3500
OV13B10_EXPOSURE_MIN == 4
OV13B10_EXPOSURE_STEP == 1
OV13B10_VTS_MAX == \h7fff
OV13B10_REG_GAIN_H == \h350a
OV13B10_REG_GAIN_L == \h350b
OV13B10_GAIN_H_MASK == \h07
OV13B10_GAIN_H_SHIFT == 8
OV13B10_GAIN_L_MASK == \hff
OV13B10_GAIN_MIN == \h80
OV13B10_GAIN_MAX == \h07c0
OV13B10_GAIN_STEP == 1
OV13B10_GAIN_DEFAULT == \h80
OV13B10_REG_TEST_PATTERN == \h5080
OV13B10_TEST_PATTERN_ENABLE == \h80
OV13B10_TEST_PATTERN_DISABLE == \h0
OV13B10_REG_VTS == \h380e
REG_NULL == \hFFFF
OV13B10_REG_VALUE_08BIT == 1
OV13B10_REG_VALUE_16BIT == 2
OV13B10_REG_VALUE_24BIT == 3

(***************************************************************************)
(* The register programs (ov13b10.c:140-489).  None of the six tables ends *)
(* with a REG_NULL entry.                                                  *)
(***************************************************************************)
ov13b10_global_regs ==
  <<<<\h0103, \h01>>, <<\h0303, \h04>>, <<\h0305, \haf>>, <<\h0321, \h00>>,
    <<\h0323, \h04>>, <<\h0324, \h01>>, <<\h0325, \ha4>>, <<\h0326, \h81>>,
    <<\h0327, \h04>>, <<\h3012, \h07>>, <<\h3013, \h32>>, <<\h3107, \h23>>,
    <<\h3501, \h0c>>, <<\h3502, \h10>>, <<\h3504, \h08>>, <<\h3508, \h07>>,
    <<\h3509, \hc0>>, <<\h3600, \h16>>, <<\h3601, \h54>>, <<\h3612, \h4e>>,
    <<\h3620, \h00>>, <<\h3621, \h68>>, <<\h3622, \h66>>, <<\h3623, \h03>>,
    <<\h3662, \h92>>, <<\h3666, \hbb>>, <<\h3667, \h44>>, <<\h366e, \hff>>,
    <<\h366f, \hf3>>, <<\h3675, \h44>>, <<\h3676, \h00>>, <<\h367f, \he9>>,
    <<\h3681, \h32>>, <<\h3682, \h1f>>, <<\h3683, \h0b>>, <<\h3684, \h0b>>,
    <<\h3704, \h0f>>, <<\h3706, \h40>>, <<\h3708, \h3b>>, <<\h3709, \h72>>,
    <<\h370b, \ha2>>, <<\h3714, \h24>>, <<\h371a, \h3e>>, <<\h3725, \h42>>,
    <<\h3739, \h12>>, <<\h3767, \h00>>, <<\h377a, \h0d>>, <<\h3789, \h18>>,
    <<\h3790, \h40>>, <<\h3791, \ha2>>, <<\h37c2, \h04>>, <<\h37c3, \hf1>>,
    <<\h37d9, \h0c>>, <<\h37da, \h02>>, <<\h37dc, \h02>>, <<\h37e1, \h04>>,
    <<\h37e2, \h0a>>, <<\h3800, \h00>>, <<\h3801, \h00>>, <<\h3802, \h00>>,
    <<\h3803, \h08>>, <<\h3804, \h10>>, <<\h3805, \h8f>>, <<\h3806, \h0c>>,
    <<\h3807, \h47>>, <<\h3808, \h10>>, <<\h3809, \h70>>, <<\h380a, \h0c>>,
    <<\h380b, \h30>>, <<\h380c, \h04>>, <<\h380d, \h98>>, <<\h380e, \h0c>>,
    <<\h380f, \h7c>>, <<\h3811, \h0f>>, <<\h3813, \h09>>, <<\h3814, \h01>>,
    <<\h3815, \h01>>, <<\h3816, \h01>>, <<\h3817, \h01>>, <<\h381f, \h08>>,
    <<\h3820, \h88>>, <<\h3821, \h00>>, <<\h3822, \h14>>, <<\h382e, \he6>>,
    <<\h3c80, \h00>>, <<\h3c87, \h01>>, <<\h3c8c, \h19>>, <<\h3c8d, \h1c>>,
    <<\h3ca0, \h00>>, <<\h3ca1, \h00>>, <<\h3ca2, \h00>>, <<\h3ca3, \h00>>,
    <<\h3ca4, \h50>>, <<\h3ca5, \h11>>, <<\h3ca6, \h01>>, <<\h3ca7, \h00>>,
    <<\h3ca8, \h00>>, <<\h4008, \h02>>, <<\h4009, \h0f>>, <<\h400a, \h01>>,
    <<\h400b, \h19>>, <<\h4011, \h21>>, <<\h4017, \h08>>, <<\h4019, \h04>>,
    <<\h401a, \h58>>, <<\h4032, \h1e>>, <<\h4050, \h02>>, <<\h4051, \h09>>,
    <<\h405e, \h00>>, <<\h4066, \h02>>, <<\h4501, \h00>>, <<\h4502, \h10>>,
    <<\h4505, \h00>>, <<\h4800, \h64>>, <<\h481b, \h3e>>, <<\h481f, \h30>>,
    <<\h4825, \h34>>, <<\h4837, \h0e>>, <<\h484b, \h01>>, <<\h4883, \h02>>,
    <<\h5000, \hff>>, <<\h5001, \h0f>>, <<\h5045, \h20>>, <<\h5046, \h20>>,
    <<\h5047, \ha4>>, <<\h5048, \h20>>, <<\h5049, \ha4>>, <<\h0100, \h01>>>>

mode_4208x3120_regs ==
  <<<<\h0305, \haf>>, <<\h3501, \h0c>>, <<\h3662, \h92>>, <<\h3714, \h24>>,
    <<\h3739, \h12>>, <<\h37c2, \h04>>, <<\h37d9, \h0c>>, <<\h37e2, \h0a>>,
    <<\h3800, \h00>>, <<\h3801, \h00>>, <<\h3802, \h00>>, <<\h3803, \h08>>,
    <<\h3804, \h10>>, <<\h3805, \h8f>>, <<\h3806, \h0c>>, <<\h3807, \h47>>,
    <<\h3808, \h10>>, <<\h3809, \h70>>, <<\h380a, \h0c>>, <<\h380b, \h30>>,
    <<\h380c, \h04>>, <<\h380d, \h98>>, <<\h380e, \h0c>>, <<\h380f, \h7c>>,
    <<\h3810, \h00>>, <<\h3811, \h0f>>, <<\h3812, \h00>>, <<\h3813, \h09>>,
    <<\h3814, \h01>>, <<\h3816, \h01>>, <<\h3820, \h88>>, <<\h3c8c, \h19>>,
    <<\h4008, \h02>>, <<\h4009, \h0f>>, <<\h4050, \h02>>, <<\h4051, \h09>>,
    <<\h4501, \h00>>, <<\h4505, \h00>>, <<\h4837, \h0e>>, <<\h5000, \hff>>,
    <<\h5001, \h0f>>>>

mode_4160x3120_regs ==
  <<<<\h0305, \haf>>, <<\h3501, \h0c>>, <<\h3662, \h92>>, <<\h3714, \h24>>,
    <<\h3739, \h12>>, <<\h37c2, \h04>>, <<\h37d9, \h0c>>, <<\h37e2, \h0a>>,
    <<\h3800, \h00>>, <<\h3801, \h00>>, <<\h3802, \h00>>, <<\h3803, \h08>>,
    <<\h3804, \h10>>, <<\h3805, \h8f>>, <<\h3806, \h0c>>, <<\h3807, \h47>>,
    <<\h3808, \h10>>, <<\h3809, \h40>>, <<\h380a, \h0c>>, <<\h380b, \h30>>,
    <<\h380c, \h04>>, <<\h380d, \h98>>, <<\h380e, \h0c>>, <<\h380f, \h7c>>,
    <<\h3810, \h00>>, <<\h3811, \h27>>, <<\h3812, \h00>>, <<\h3813, \h09>>,
    <<\h3814, \h01>>, <<\h3816, \h01>>, <<\h3820, \h88>>, <<\h3c8c, \h19>>,
    <<\h4008, \h02>>, <<\h4009, \h0f>>, <<\h4050, \h02>>, <<\h4051, \h09>>,
    <<\h4501, \h00>>, <<\h4505, \h00>>, <<\h4837, \h0e>>, <<\h5000, \hff>>,
    <<\h5001, \h0f>>>>

mode_4160x2340_regs ==
  <<<<\h0305, \haf>>, <<\h3501, \h0c>>, <<\h3662, \h92>>, <<\h3714, \h24>>,
    <<\h3739, \h12>>, <<\h37c2, \h04>>, <<\h37d9, \h0c>>, <<\h37e2, \h0a>>,
    <<\h3800, \h00>>, <<\h3801, \h00>>, <<\h3802, \h00>>, <<\h3803, \h08>>,
    <<\h3804, \h10>>, <<\h3805, \h8f>>, <<\h3806, \h0c>>, <<\h3807, \h47>>,
    <<\h3808, \h10>>, <<\h3809, \h40>>, <<\h380a, \h09>>, <<\h380b, \h24>>,
    <<\h380c, \h04>>, <<\h380d, \h98>>, <<\h380e, \h0c>>, <<\h380f, \h7c>>,
    <<\h3810, \h00>>, <<\h3811, \h27>>, <<\h3812, \h01>>, <<\h3813, \h8f>>,
    <<\h3814, \h01>>, <<\h3816, \h01>>, <<\h3820, \h88>>, <<\h3c8c, \h19>>,
    <<\h4008, \h02>>, <<\h4009, \h0f>>, <<\h4050, \h02>>, <<\h4051, \h09>>,
    <<\h4501, \h00>>, <<\h4505, \h00>>, <<\h4837, \h0e>>, <<\h5000, \hff>>,
    <<\h5001, \h0f>>>>

mode_2104x1560_regs ==
  <<<<\h0305, \haf>>, <<\h3501, \h06>>, <<\h3662, \h88>>, <<\h3714, \h28>>,
    <<\h3739, \h10>>, <<\h37c2, \h14>>, <<\h37d9, \h06>>, <<\h37e2, \h0c>>,
    <<\h3800, \h00>>, <<\h3801, \h00>>, <<\h3802, \h00>>, <<\h3803, \h08>>,
    <<\h3804, \h10>>, <<\h3805, \h8f>>, <<\h3806, \h0c>>, <<\h3807, \h47>>,
    <<\h3808, \h08>>, <<\h3809, \h38>>, <<\h380a, \h06>>, <<\h380b, \h18>>,
    <<\h380c, \h04>>, <<\h380d, \h98>>, <<\h380e, \h06>>, <<\h380f, \h3e>>,
    <<\h3810, \h00>>, <<\h3811, \h07>>, <<\h3812, \h00>>, <<\h3813, \h05>>,
    <<\h3814, \h03>>, <<\h3816, \h03>>, <<\h3820, \h8b>>, <<\h3c8c, \h18>>,
    <<\h4008, \h00>>, <<\h4009, \h05>>, <<\h4050, \h00>>, <<\h4051, \h05>>,
    <<\h4501, \h08>>, <<\h4505, \h00>>, <<\h4837, \h0e>>, <<\h5000, \hfd>>,
    <<\h5001, \h0d>>>>

mode_2080x1170_regs ==
  <<<<\h0305, \haf>>, <<\h3501, \h06>>, <<\h3662, \h88>>, <<\h3714, \h28>>,
    <<\h3739, \h10>>, <<\h37c2, \h14>>, <<\h37d9, \h06>>, <<\h37e2, \h0c>>,
    <<\h3800, \h00>>, <<\h3801, \h00>>, <<\h3802, \h00>>, <<\h3803, \h08>>,
    <<\h3804, \h10>>, <<\h3805, \h8f>>, <<\h3806, \h0c>>, <<\h3807, \h47>>,
    <<\h3808, \h08>>, <<\h3809, \h20>>, <<\h380a, \h04>>, <<\h380b, \h92>>,
    <<\h380c, \h04>>, <<\h380d, \h98>>, <<\h380e, \h06>>, <<\h380f, \h3e>>,
    <<\h3810, \h00>>, <<\h3811, \h13>>, <<\h3812, \h00>>, <<\h3813, \hc9>>,
    <<\h3814, \h03>>, <<\h3816, \h03>>, <<\h3820, \h8b>>, <<\h3c8c, \h18>>,
    <<\h4008, \h00>>, <<\h4009, \h05>>, <<\h4050, \h00>>, <<\h4051, \h05>>,
    <<\h4501, \h08>>, <<\h4505, \h00>>, <<\h4837, \h0e>>, <<\h5000, \hfd>>,
    <<\h5001, \h0d>>>>

(***************************************************************************)
(* The mode catalog (ov13b10.c:491-550), indexed from 0 as in the source.  *)
(***************************************************************************)
supported_modes_list ==
  << [width |-> 4208, height |-> 3120, hts_def |-> \h0498, vts_def |-> \h0c7c,
      exp_def |-> \h0c00, reg_list |-> mode_4208x3120_regs],
     [width |-> 4160, height |-> 3120, hts_def |-> \h0498, vts_def |-> \h0c7c,
      exp_def |-> \h0c00, reg_list |-> mode_4160x3120_regs],
     [width |-> 4160, height |-> 2340, hts_def |-> \h0498, vts_def |-> \h0c7c,
      exp_def |-> \h0c00, reg_list |-> mode_4160x2340_regs],
     [width |-> 2104, height |-> 1560, hts_def |-> \h0498, vts_def |-> \h0c7c,
      exp_def |-> \h0c00, reg_list |-> mode_2104x1560_regs],
     [width |-> 2080, height |-> 1170, hts_def |-> \h0498, vts_def |-> \h0c7c,
      exp_def |-> \h0c00, reg_list |-> mode_2080x1170_regs] >>

\* ARRAY_SIZE(supported_modes)
NumModes == Len(supported_modes_list)

ModeIdx == 0 .. (NumModes - 1)

supported_modes == [i \in ModeIdx |-> supported_modes_list[i + 1]]

(***************************************************************************)
(* 32-bit machine words.  A u32 is the pair <<high half, low half>> of its *)
(* 16-bit halves, so that every value of the type is representable and the *)
(* arithmetic below wraps modulo 2^32 as the C arithmetic does.            *)
(***************************************************************************)
Half == 2^16

U32(n) == << n \div Half, n % Half >>

u32_sub(a, b) ==
  LET lo == a[2] - b[2]
      borrow == IF lo < 0 THEN 1 ELSE 0
  IN  << (a[1] - b[1] - borrow) % Half, lo % Half >>

u32_add(a, b) ==
  LET lo == a[2] + b[2]
      carry == lo \div Half
  IN  << (a[1] + b[1] + carry) % Half, lo % Half >>

\* the word read as an int: its sign bit
s32_negative(a) == a[1] >= Half \div 2

\* int comparison a < b on the words read as int
s32_less(a, b) ==
  LET sa == IF s32_negative(a) THEN a[1] - Half ELSE a[1]
      sb == IF s32_negative(b) THEN b[1] - Half ELSE b[1]
  IN  sa < sb \/ (sa = sb /\ a[2] < b[2])

\* the kernel's abs() on an unsigned int argument: the value is converted to
\* int and negated when negative
abs(x) == IF s32_negative(x) THEN u32_sub(<<0, 0>>, x) ELSE x

\* the int -1
MinusOne == << Half - 1, Half - 1 >>

\* a local of a handler: the value v, computed once, under the name K gives it
With(v, K(_)) == K(v)

(***************************************************************************)
(* Best-fit mode selection (ov13b10.c:644-669).  framefmt holds the        *)
(* requested width and height as u32 words.                                *)
(***************************************************************************)
ov13b10_get_reso_dist(mode, framefmt) ==
  u32_add(abs(u32_sub(U32(mode.width), framefmt.width)),
          abs(u32_sub(U32(mode.height), framefmt.height)))

RECURSIVE best_fit_loop(_, _, _, _)
best_fit_loop(i, cur_best_fit, cur_best_fit_dist, framefmt) ==
  IF i >= NumModes
  THEN cur_best_fit
  ELSE With(ov13b10_get_reso_dist(supported_modes[i], framefmt),
            LAMBDA dist :
              IF cur_best_fit_dist = MinusOne \/ s32_less(dist, cur_best_fit_dist)
              THEN best_fit_loop(i + 1, i, dist, framefmt)
              ELSE best_fit_loop(i + 1, cur_best_fit, cur_best_fit_dist,
                                 framefmt))

ov13b10_find_best_fit(framefmt) == best_fit_loop(0, 0, MinusOne, framefmt)

(***************************************************************************)
(* Register access (ov13b10.c:564-642).                                    *)
(*                                                                         *)
(* The bus is a recording double.  An io value threads it through a        *)
(* handler: io.msgs are the transfers issued so far, in order, and io.bad  *)
(* is the set of positions (counted over io.msgs) at which the transport   *)
(* reports a failed transfer.  A message records the bytes handed to       *)
(* i2c_master_send and whether the transport accepted them.                *)
(***************************************************************************)
send_ok(io) == (Len(io.msgs) + 1) \notin io.bad

\* byte k (0 = most significant) of cpu_to_be32(val)
be32_byte(val, k) == (val \div (256 ^ (3 - k))) % 256

\* buf[0..len+1] as filled by ov13b10_write_reg
write_reg_buf(reg, len, val) ==
  << (reg \div 256) % 256, reg % 256 >> \o
  [j \in 1 .. len |-> be32_byte(val, 4 - len + (j - 1))]

ov13b10_write_reg(io, reg, len, val) ==
  IF len > 4
  THEN [ret |-> "EINVAL", io |-> io]
  ELSE LET ok == send_ok(io)
           msg == [buf |-> write_reg_buf(reg, len, val), ok |-> ok]
       IN  [ret |-> IF ok THEN "OK" ELSE "EIO",
            io  |-> [io EXCEPT !.msgs = Append(@, msg)]]

(***************************************************************************)
(* ov13b10_write_array (ov13b10.c:595-607) walks regs[] until an entry     *)
(* whose addr is REG_NULL.  No table of this driver holds such an entry,   *)
(* so the walk leaves the array: what it reads there is not defined by the *)
(* program.  cells is the memory the walk sees: the table followed by the  *)
(* entries `after` that happen to lie behind it; behind those the walk     *)
(* either meets a word equal to REG_NULL (fault = FALSE) or touches an     *)
(* unmapped page (fault = TRUE), which ends the calling task.              *)
(***************************************************************************)
\* The loop of ov13b10_write_array, in closed form: `stop` is the first cell
\* holding REG_NULL (or the end of the cells), `fail` the first cell whose
\* write the bus refuses; the cells up to the earlier of the two are written,
\* each by ov13b10_write_reg with OV13B10_REG_VALUE_08BIT.
Min(S) == CHOOSE x \in S : \A y \in S : x <= y

Max(S) == CHOOSE x \in S : \A y \in S : x >= y

\* faulty variant of write_array_cells: a refused write does not end the walk
write_array_cells_goes_on(io, cells, fault) ==
  LET base  == Len(io.msgs)
      nulls == { i \in 1 .. Len(cells) : cells[i][1] = REG_NULL }
      stop  == IF nulls = {} THEN Len(cells) + 1 ELSE Min(nulls)
      fails == { i \in 1 .. stop - 1 : (base + i) \in io.bad }
      sent  == [i \in 1 .. stop - 1 |->
                 [buf |-> write_reg_buf(cells[i][1], OV13B10_REG_VALUE_08BIT,
                                        cells[i][2]),
                  ok  |-> i \notin fails]]
  IN  [ret  |-> IF fails = {} THEN "OK" ELSE "EIO",
       io   |-> [io EXCEPT !.msgs = @ \o sent],
       oops |-> nulls = {} /\ fault]

write_array_cells(io, cells, fault) ==
  LET base  == Len(io.msgs)
      nulls == { i \in 1 .. Len(cells) : cells[i][1] = REG_NULL }
      stop  == IF nulls = {} THEN Len(cells) + 1 ELSE Min(nulls)
      fails == { i \in 1 .. stop - 1 : (base + i) \in io.bad }
      fail  == IF fails = {} THEN 0 ELSE Min(fails)
      count == IF fail = 0 THEN stop - 1 ELSE fail
      sent  == [i \in 1 .. count |->
                 [buf |-> write_reg_buf(cells[i][1], OV13B10_REG_VALUE_08BIT,
                                        cells[i][2]),
                  ok  |-> i # fail]]
  IN  [ret  |-> IF fail = 0 THEN "OK" ELSE "EIO",
       io   |-> [io EXCEPT !.msgs = @ \o sent],
       oops |-> fail = 0 /\ nulls = {} /\ fault]

ov13b10_write_array(io, regs, after, fault) ==
  write_array_cells(io, regs \o after, fault)

\* faulty variant of be32_value: data_be taken as it lies in the memory of a
\* little-endian host, without be32_to_cpu
host_order_value(bytes, len) ==
  LET byte(k) == IF k <= 4 - len THEN 0 ELSE bytes[k - (4 - len)]
  IN  << byte(4) * 256 + byte(3), byte(2) * 256 + byte(1) >>

\* be32_to_cpu(data_be) after len bytes were read into its low-order end,
\* as a u32 word: byte k (1 = most significant) of data_be is 0 in front of
\* the bytes read
be32_value(bytes, len) ==
  LET byte(k) == IF k <= 4 - len THEN 0 ELSE bytes[k - (4 - len)]
  IN  << byte(1) * 256 + byte(2), byte(3) * 256 + byte(4) >>

(***************************************************************************)
(* ov13b10_read_reg (ov13b10.c:610-642): one i2c_transfer of two messages, *)
(* the register address written and len bytes read.  data holds the bytes  *)
(* the device answers with; the bus double records the transfer with the   *)
(* address as buf and the number of bytes asked for as rd.  val is << >>   *)
(* when *val was not stored.                                               *)
(***************************************************************************)
ov13b10_read_reg(io, reg, len, data) ==
  IF len > 4 \/ len = 0
  THEN [ret |-> "EINVAL", io |-> io, val |-> << >>]
  ELSE LET ok == send_ok(io)
           msg == [buf |-> << (reg \div 256) % 256, reg % 256 >>, ok |-> ok,
                   rd |-> len]
       IN  [ret |-> IF ok THEN "OK" ELSE "EIO",
            io  |-> [io EXCEPT !.msgs = Append(@, msg)],
            val |-> IF ok THEN << be32_value(data, len) >> ELSE << >>]

\* faulty variant of ov13b10_check_sensor_id: the result of the read decides
\* and the value read is not compared
check_sensor_id_by_ret(io, data) ==
  With(ov13b10_read_reg(io, OV13B10_REG_CHIP_ID, OV13B10_REG_VALUE_24BIT, data),
       LAMBDA r : [ret |-> IF r.ret # "OK" THEN "ENODEV" ELSE "OK",
                   io  |-> r.io])

\* ov13b10_check_sensor_id (ov13b10.c:1298-1315): id starts as 0 and the
\* result of the read is not looked at
ov13b10_check_sensor_id(io, data) ==
  With(ov13b10_read_reg(io, OV13B10_REG_CHIP_ID, OV13B10_REG_VALUE_24BIT, data),
       LAMBDA r : [ret |-> IF (IF r.val = << >> THEN U32(0) ELSE r.val[1])
                                # U32(CHIP_ID)
                           THEN "ENODEV" ELSE "OK",
                   io  |-> r.io])

(***************************************************************************)
(* The control handler.  A control is [minimum, maximum, step,             *)
(* default_value, val].  A handler works on the driver instance threaded   *)
(* as a record st with the fields                                          *)
(*   streaming, power_on, cur_mode   as in struct ov13b10                  *)
(*   ctrl          the controls with s_ctrl ops, by id                     *)
(*   hblank        the read-only horizontal-blank control (u32 words)      *)
(*   usage, active, idle_pending   the device's runtime-PM state           *)
(*   io            the bus double                                          *)
(*   res           the optional resources probe obtained                   *)
(*   hw            the runs of the power sequencer during this handler     *)
(*   oops          a task of the driver died holding the instance mutex    *)
(***************************************************************************)
CtrlOrder == << "VBLANK", "EXPOSURE", "ANALOGUE_GAIN", "TEST_PATTERN" >>

CtrlIds == { CtrlOrder[i] : i \in 1 .. Len(CtrlOrder) }

\* the framework's rounding of an integer control value into the range
round_to_range(c, v) ==
  LET half == c.step \div 2
      v1 == IF c.maximum >= 0 /\ v >= c.maximum - half
            THEN c.maximum ELSE v + half
      v2 == IF v1 < c.minimum THEN c.minimum
            ELSE IF v1 > c.maximum THEN c.maximum ELSE v1
  IN  c.minimum + c.step * ((v2 - c.minimum) \div c.step)

\* pm_runtime_get_if_in_use: takes a reference only when the device is
\* active and already referenced
pm_runtime_get_if_in_use(st) ==
  IF st.active /\ st.usage > 0
  THEN [got |-> TRUE, st |-> [st EXCEPT !.usage = @ + 1]]
  ELSE [got |-> FALSE, st |-> st]

\* pm_runtime_put: drops a reference; the last one queues an idle request,
\* which suspends the device later
pm_runtime_put(st) ==
  [st EXCEPT !.usage = @ - 1,
             !.idle_pending = IF st.usage - 1 = 0 THEN TRUE ELSE @]

\* pm_runtime_put_noidle: drops a reference and nothing else
pm_runtime_put_noidle(st) == [st EXCEPT !.usage = @ - 1]

\* faulty variant of exposure_max: the margin of 16 lines is left out
exposure_max_no_margin(height, vblank_val) == height + vblank_val

\* max = cur_mode->height + ctrl->val - 16 (ov13b10.c:1176)
exposure_max(height, vblank_val) == height + vblank_val - 16

\* faulty variant of test_pattern_val: the enable bit is left out
test_pattern_val_no_enable(pattern) ==
  IF pattern # 0 THEN pattern - 1 ELSE OV13B10_TEST_PATTERN_DISABLE

\* val = (pattern - 1) | OV13B10_TEST_PATTERN_ENABLE (ov13b10.c:768-771):
\* the bits of pattern - 1 with the enable bit forced to 1
test_pattern_val(pattern) ==
  IF pattern # 0
  THEN ((pattern - 1) % OV13B10_TEST_PATTERN_ENABLE) + OV13B10_TEST_PATTERN_ENABLE
       + ((pattern - 1) \div (2 * OV13B10_TEST_PATTERN_ENABLE))
           * (2 * OV13B10_TEST_PATTERN_ENABLE)
  ELSE OV13B10_TEST_PATTERN_DISABLE

ov13b10_enable_test_pattern(io, pattern) ==
  ov13b10_write_reg(io, OV13B10_REG_TEST_PATTERN, OV13B10_REG_VALUE_08BIT,
                    test_pattern_val(pattern))

\* faulty variant of gain_h: a mask of two bits
gain_h_two_bits(val) == (val \div (2 ^ OV13B10_GAIN_H_SHIFT)) % 4

gain_h(val) == (val \div (2 ^ OV13B10_GAIN_H_SHIFT)) % (OV13B10_GAIN_H_MASK + 1)

gain_l(val) == val % (OV13B10_GAIN_L_MASK + 1)

\* ret |= ...: both operands are 0 or -EIO here
or_ret(a, b) == IF a = "OK" THEN b ELSE a

\* the second switch of ov13b10_set_ctrl (ov13b10.c:1187-1218)
set_ctrl_write(st, id, val) ==
  CASE id = "EXPOSURE" ->
         ov13b10_write_reg(st.io, OV13B10_REG_EXPOSURE,
                           OV13B10_REG_VALUE_24BIT, val)
    [] id = "ANALOGUE_GAIN" ->
         With(ov13b10_write_reg(st.io, OV13B10_REG_GAIN_H,
                                OV13B10_REG_VALUE_08BIT, gain_h(val)),
              LAMBDA h :
         With(ov13b10_write_reg(h.io, OV13B10_REG_GAIN_L,
                                OV13B10_REG_VALUE_08BIT, gain_l(val)),
              LAMBDA l : [ret |-> or_ret(h.ret, l.ret), io |-> l.io]))
    [] id = "VBLANK" ->
         ov13b10_write_reg(st.io, OV13B10_REG_VTS, OV13B10_REG_VALUE_16BIT,
                           val + supported_modes[st.cur_mode].height)
    [] id = "TEST_PATTERN" ->
         ov13b10_enable_test_pattern(st.io, val)
    [] OTHER -> [ret |-> "OK", io |-> st.io]

\* faulty variant of set_ctrl_apply: the register is written whether or not
\* the device is in use
set_ctrl_apply_ungated(g, id, val) ==
  With(set_ctrl_write(g.st, id, val),
       LAMBDA w : [ret |-> w.ret,
                   st  |-> IF g.got
                           THEN pm_runtime_put([g.st EXCEPT !.io = w.io])
                           ELSE [g.st EXCEPT !.io = w.io]])

\* ov13b10.c:1183-1184 and 1220: the register write happens only between a
\* successful pm_runtime_get_if_in_use and the matching pm_runtime_put
set_ctrl_apply(g, id, val) ==
  IF ~g.got
  THEN [ret |-> "OK", st |-> g.st]
  ELSE With(set_ctrl_write(g.st, id, val),
            LAMBDA w : [ret |-> w.ret,
                        st  |-> pm_runtime_put([g.st EXCEPT !.io = w.io])])

RECURSIVE ov13b10_set_ctrl(_, _, _)

\* the value part of __v4l2_ctrl_modify_range: the current value rounded
\* into the new range; a value that changed is set through s_ctrl and kept
\* when that succeeds
modify_range_value(s1, id, nv) ==
  IF nv = s1.ctrl[id].val
  THEN s1
  ELSE With(ov13b10_set_ctrl(s1, id, nv),
            LAMBDA r : IF r.ret = "OK"
                       THEN [r.st EXCEPT !.ctrl[id].val = nv]
                       ELSE r.st)

\* The framework call __v4l2_ctrl_modify_range(ctrl, min, max, step, def):
\* a range that fails check_range is refused; otherwise the range is
\* stored and the current value is brought into it.
__v4l2_ctrl_modify_range(st, id, min, max, step, def) ==
  IF step = 0 \/ min > max \/ def < min \/ def > max
  THEN st
  ELSE With([st.ctrl[id] EXCEPT !.minimum = min, !.maximum = max,
                                !.step = step, !.default_value = def],
            LAMBDA c : modify_range_value([st EXCEPT !.ctrl[id] = c], id,
                                          round_to_range(c, c.val)))

\* ov13b10.c:1172-1181: a new vblank moves the exposure control's maximum
set_ctrl_propagate(st, id, val) ==
  IF id = "VBLANK"
  THEN __v4l2_ctrl_modify_range(
         st, "EXPOSURE", st.ctrl["EXPOSURE"].minimum,
         exposure_max(supported_modes[st.cur_mode].height, val),
         st.ctrl["EXPOSURE"].step,
         st.ctrl["EXPOSURE"].default_value)
  ELSE st

\* ov13b10_set_ctrl (ov13b10.c:1166-1223) for control id with ctrl->val = val
ov13b10_set_ctrl(st, id, val) ==
  set_ctrl_apply(pm_runtime_get_if_in_use(set_ctrl_propagate(st, id, val)),
                 id, val)

\* The framework's set of one control from user space (VIDIOC_S_CTRL): the
\* value is validated against the range, handed to s_ctrl, and becomes the
\* current value when s_ctrl succeeds.
v4l2_s_ctrl_value(st, id, nv) ==
  With(ov13b10_set_ctrl(st, id, nv),
       LAMBDA r : IF r.ret = "OK"
                  THEN [ret |-> "OK", st |-> [r.st EXCEPT !.ctrl[id].val = nv]]
                  ELSE r)

v4l2_s_ctrl(st, id, v) ==
  IF id = "TEST_PATTERN"
  THEN IF v < st.ctrl[id].minimum \/ v > st.ctrl[id].maximum
       THEN [ret |-> "ERANGE", st |-> st]
       ELSE v4l2_s_ctrl_value(st, id, v)
  ELSE v4l2_s_ctrl_value(st, id, round_to_range(st.ctrl[id], v))

\* v4l2_ctrl_handler_setup: s_ctrl of every writable control with its
\* current value, in the order the controls were added, until one fails
RECURSIVE v4l2_ctrl_handler_setup_from(_, _)
v4l2_ctrl_handler_setup_from(st, i) ==
  IF i > Len(CtrlOrder)
  THEN [ret |-> "OK", st |-> st]
  ELSE With(ov13b10_set_ctrl(st, CtrlOrder[i], st.ctrl[CtrlOrder[i]].val),
            LAMBDA r : IF r.ret # "OK"
                       THEN r
                       ELSE v4l2_ctrl_handler_setup_from(r.st, i + 1))

v4l2_ctrl_handler_setup(st) == v4l2_ctrl_handler_setup_from(st, 1)

(***************************************************************************)
(* The power sequencer (ov13b10.c:982-1062).  res tells which optional     *)
(* resources probe obtained; the result lists the hardware steps taken.    *)
(***************************************************************************)
OV13B10_XVCLK_MHZ == 24

\* DIV_ROUND_UP(cycles, OV13B10_XVCLK_FREQ / 1000 / 1000)
ov13b10_cal_delay(cycles) == (cycles + OV13B10_XVCLK_MHZ - 1) \div OV13B10_XVCLK_MHZ

opt(present, step) == IF present THEN << step >> ELSE << >>

\* faulty variant of __ov13b10_power_on: the clock stays enabled when the
\* supply rails fail
power_on_keeps_clock(res, rate_ok, clk_ok, reg_ok) ==
  LET s1 == opt(res.power_gpio, <<"power_gpio", 1>>) \o
            << <<"usleep", 1000>> >> \o
            opt(res.pins_default, <<"pinctrl", "default">>) \o
            << <<"clk_set_rate", rate_ok>> >>
      s2 == << <<"clk_enable", 1>> >> \o opt(res.reset_gpio, <<"reset_gpio", 0>>)
      s3 == opt(res.reset_gpio, <<"reset_gpio", 1>>) \o
            << <<"usleep", 500>> >> \o
            opt(res.pwdn_gpio, <<"pwdn_gpio", 1>>) \o
            << <<"usleep", ov13b10_cal_delay(8192)>> >>
  IN  IF ~clk_ok
      THEN [ret |-> "ECLK", steps |-> s1]
      ELSE IF ~reg_ok
      THEN [ret |-> "EREG", steps |-> s1 \o s2]
      ELSE [ret |-> "OK",
            steps |-> s1 \o s2 \o << <<"regulators", 1>> >> \o s3]

__ov13b10_power_on(res, rate_ok, clk_ok, reg_ok) ==
  LET s1 == opt(res.power_gpio, <<"power_gpio", 1>>) \o
            << <<"usleep", 1000>> >> \o
            opt(res.pins_default, <<"pinctrl", "default">>) \o
            << <<"clk_set_rate", rate_ok>> >>
      s2 == << <<"clk_enable", 1>> >> \o opt(res.reset_gpio, <<"reset_gpio", 0>>)
      s3 == opt(res.reset_gpio, <<"reset_gpio", 1>>) \o
            << <<"usleep", 500>> >> \o
            opt(res.pwdn_gpio, <<"pwdn_gpio", 1>>) \o
            << <<"usleep", ov13b10_cal_delay(8192)>> >>
  IN  IF ~clk_ok
      THEN [ret |-> "ECLK", steps |-> s1]
      ELSE IF ~reg_ok
      THEN [ret |-> "EREG",
            steps |-> s1 \o s2 \o << <<"clk_enable", 0>> >>]
      ELSE [ret |-> "OK",
            steps |-> s1 \o s2 \o << <<"regulators", 1>> >> \o s3]

\* faulty variant of __ov13b10_power_off: the supply rails go first
power_off_rails_first(res) ==
  << <<"regulators", 0>> >> \o
  opt(res.pwdn_gpio, <<"pwdn_gpio", 0>>) \o
  << <<"clk_enable", 0>> >> \o
  opt(res.reset_gpio, <<"reset_gpio", 0>>) \o
  opt(res.pins_sleep, <<"pinctrl", "sleep">>) \o
  opt(res.power_gpio, <<"power_gpio", 0>>)

__ov13b10_power_off(res) ==
  opt(res.pwdn_gpio, <<"pwdn_gpio", 0>>) \o
  << <<"clk_enable", 0>> >> \o
  opt(res.reset_gpio, <<"reset_gpio", 0>>) \o
  opt(res.pins_sleep, <<"pinctrl", "sleep">>) \o
  opt(res.power_gpio, <<"power_gpio", 0>>) \o
  << <<"regulators", 0>> >>

(***************************************************************************)
(* Runtime PM as the driver uses it.  pm_runtime_get_sync takes a          *)
(* reference, cancels a queued idle request and, when the device is        *)
(* suspended, resumes it through ov13b10_runtime_resume                    *)
(* (ov13b10.c:1064-1071); the reference stays taken when the resume fails. *)
(* env holds what the environment answers during one handler: env.bad,     *)
(* env.after and env.fault for the bus and the memory behind a register    *)
(* table, env.rate_ok, env.clk_ok and env.reg_ok for the clock and the     *)
(* regulators.                                                             *)
(***************************************************************************)
Resources ==
  [power_gpio |-> TRUE, pins_default |-> TRUE, reset_gpio |-> TRUE,
   pwdn_gpio |-> TRUE, pins_sleep |-> TRUE]

ov13b10_runtime_resume(res, env) ==
  __ov13b10_power_on(res, env.rate_ok, env.clk_ok, env.reg_ok)

\* ov13b10_runtime_suspend (ov13b10.c:1073-1082) returns 0 whatever happens
ov13b10_runtime_suspend(res) ==
  [ret |-> "OK", steps |-> __ov13b10_power_off(res)]

\* a run of the power sequencer as the hardware saw it: who ran it, the
\* steps taken in order, the result, and the number of bus transfers the
\* handler had issued before it
power_run(st, by, p) ==
  [st EXCEPT !.hw = Append(@, [by |-> by, ret |-> p.ret, steps |-> p.steps,
                               at |-> Len(st.io.msgs)])]

\* the reference and the cancelled idle request of pm_runtime_get_sync
rpm_get(st) == [st EXCEPT !.usage = @ + 1, !.idle_pending = FALSE]

pm_runtime_get_sync(st, env) ==
  IF st.active
  THEN [ret |-> "OK", st |-> rpm_get(st)]
  ELSE With(ov13b10_runtime_resume(st.res, env),
            LAMBDA p : IF p.ret = "OK"
                       THEN [ret |-> "OK",
                             st  |-> [power_run(rpm_get(st), "runtime_resume", p)
                                        EXCEPT !.active = TRUE]]
                       ELSE [ret |-> p.ret,
                             st  |-> power_run(rpm_get(st), "runtime_resume", p)])

(***************************************************************************)
(* Streaming (ov13b10.c:880-943).                                          *)
(***************************************************************************)
\* ov13b10.c:884-886: the active mode's register program
start_stream_program(st, env) ==
  With(ov13b10_write_array(st.io, supported_modes[st.cur_mode].reg_list,
                           env.after, env.fault),
       LAMBDA a : [ret |-> a.ret,
                   st  |-> [st EXCEPT !.io = a.io, !.oops = a.oops]])

\* ov13b10.c:888-892: the control setup pass, run with the mutex released
\* and taken again by the control handler
start_stream_setup(st) == v4l2_ctrl_handler_setup(st)

\* ov13b10.c:894-897
start_stream_mode(st) ==
  With(ov13b10_write_reg(st.io, OV13B10_REG_CTRL_MODE,
                         OV13B10_REG_VALUE_08BIT, OV13B10_MODE_STREAMING),
       LAMBDA w : [ret |-> w.ret, st |-> [st EXCEPT !.io = w.io]])

__ov13b10_start_stream(st, env) ==
  With(start_stream_program(st, env),
       LAMBDA p :
         IF p.st.oops \/ p.ret # "OK"
         THEN p
         ELSE With(start_stream_setup(p.st),
                   LAMBDA c : IF c.ret # "OK" THEN c
                                              ELSE start_stream_mode(c.st)))

__ov13b10_stop_stream(st) ==
  With(ov13b10_write_reg(st.io, OV13B10_REG_CTRL_MODE,
                         OV13B10_REG_VALUE_08BIT, OV13B10_MODE_SW_STANDBY),
       LAMBDA w : [ret |-> w.ret, st |-> [st EXCEPT !.io = w.io]])

\* faulty variant of stream_state_held: the held state is not recognised
stream_state_never_held(st, on) == FALSE

\* ov13b10.c:916: if (on == ov13b10->streaming) goto unlock_and_return
stream_state_held(st, on) == on = st.streaming

\* faulty variant of stream_start_failed: the reference is not given back
stream_start_failed_keeps_ref(r) == [ret |-> r.ret, st |-> r.st]

\* ov13b10.c:927-931: the start failed
stream_start_failed(r) == [ret |-> r.ret, st |-> pm_runtime_put(r.st)]

\* ov13b10.c:926-937: the outcome of __ov13b10_start_stream; a task that
\* died in it does not come back
stream_started(r, on) ==
  IF r.st.oops
  THEN r
  ELSE IF r.ret # "OK"
  THEN stream_start_failed(r)
  ELSE [ret |-> "OK", st |-> [r.st EXCEPT !.streaming = on]]

\* faulty variant of stream_start: a failed resume keeps the reference
stream_start_no_put_noidle(st, on, env) ==
  With(pm_runtime_get_sync(st, env),
       LAMBDA g :
         IF g.ret # "OK"
         THEN [ret |-> g.ret, st |-> g.st]
         ELSE stream_started(__ov13b10_start_stream(g.st, env), on))

\* ov13b10.c:920-937
stream_start(st, on, env) ==
  With(pm_runtime_get_sync(st, env),
       LAMBDA g :
         IF g.ret # "OK"
         THEN [ret |-> g.ret, st |-> pm_runtime_put_noidle(g.st)]
         ELSE stream_started(__ov13b10_start_stream(g.st, env), on))

\* faulty variant of stream_stop: a refused standby write is reported and
\* the stop abandoned
stream_stop_checked(st) ==
  With(__ov13b10_stop_stream(st),
       LAMBDA w : IF w.ret # "OK"
                  THEN [ret |-> w.ret, st |-> w.st]
                  ELSE [ret |-> "OK",
                        st  |-> [pm_runtime_put(w.st)
                                   EXCEPT !.streaming = FALSE]])

\* ov13b10.c:933-934 and 937: the stop's result is dropped
stream_stop(st) ==
  With(__ov13b10_stop_stream(st),
       LAMBDA w : [ret |-> "OK",
                   st  |-> [pm_runtime_put(w.st) EXCEPT !.streaming = FALSE]])

ov13b10_s_stream(st, on, env) ==
  IF stream_state_held(st, on)
  THEN [ret |-> "OK", st |-> st]
  ELSE IF on
  THEN stream_start(st, on, env)
  ELSE stream_stop(st)

(***************************************************************************)
(* ov13b10_s_stream(on) as the three stretches it runs in: the instance    *)
(* mutex is taken at ov13b10.c:914, released at 888 before the control     *)
(* setup pass, taken and released by v4l2_ctrl_handler_setup (the          *)
(* handler's lock is the instance mutex, ov13b10.c:1243), taken again at   *)
(* 890 and released at 940.  Between the stretches the mutex is free.  A   *)
(* stretch hands back the instance, the result so far and the place the    *)
(* task is at: "setup" before the control setup pass, "relock" before      *)
(* line 890, "idle" when the call has returned.                            *)
(***************************************************************************)
\* ov13b10.c:914-888
s_stream_on_enter(st, env) ==
  IF stream_state_held(st, TRUE)
  THEN [ret |-> "OK", st |-> st, pc |-> "idle"]
  ELSE With(pm_runtime_get_sync(st, env),
            LAMBDA g :
              IF g.ret # "OK"
              THEN [ret |-> g.ret, st |-> pm_runtime_put_noidle(g.st),
                    pc |-> "idle"]
              ELSE With(start_stream_program(g.st, env),
                        LAMBDA p :
                          IF p.st.oops \/ p.ret # "OK"
                          THEN With(stream_started(p, TRUE),
                                    LAMBDA r : [ret |-> r.ret, st |-> r.st,
                                                pc |-> "idle"])
                          ELSE [ret |-> "OK", st |-> p.st, pc |-> "setup"]))

\* ov13b10.c:889
s_stream_on_setup(st) ==
  With(start_stream_setup(st),
       LAMBDA c : [ret |-> c.ret, st |-> c.st, pc |-> "relock"])

\* ov13b10.c:890-940, ret being the result of the control setup pass
s_stream_on_leave(st, ret) ==
  With(IF ret # "OK"
       THEN stream_started([ret |-> ret, st |-> st], TRUE)
       ELSE stream_started(start_stream_mode(st), TRUE),
       LAMBDA r : [ret |-> r.ret, st |-> r.st, pc |-> "idle"])

(***************************************************************************)
(* Power (ov13b10.c:945-980).                                              *)
(***************************************************************************)
\* faulty variant of power_set_on: the flag is not raised
power_flag_not_set(st) == st

\* ov13b10.c:970
power_set_on(st) == [st EXCEPT !.power_on = TRUE]

\* faulty variant of power_programmed: a failed program keeps the reference
power_programmed_keeps_ref(st, a) ==
  IF a.oops
  THEN [ret |-> a.ret, st |-> [st EXCEPT !.io = a.io, !.oops = a.oops]]
  ELSE IF a.ret # "OK"
  THEN [ret |-> a.ret, st |-> [st EXCEPT !.io = a.io]]
  ELSE [ret |-> "OK", st |-> power_set_on([st EXCEPT !.io = a.io])]

\* ov13b10.c:962-970: the outcome of writing ov13b10_global_regs
power_programmed(st, a) ==
  IF a.oops
  THEN [ret |-> a.ret, st |-> [st EXCEPT !.io = a.io, !.oops = a.oops]]
  ELSE IF a.ret # "OK"
  THEN [ret |-> a.ret,
        st  |-> pm_runtime_put_noidle([st EXCEPT !.io = a.io])]
  ELSE [ret |-> "OK", st |-> power_set_on([st EXCEPT !.io = a.io])]

\* ov13b10.c:955-970
power_up(st, env) ==
  With(pm_runtime_get_sync(st, env),
       LAMBDA g :
         IF g.ret # "OK"
         THEN [ret |-> g.ret, st |-> pm_runtime_put_noidle(g.st)]
         ELSE power_programmed(
                g.st, ov13b10_write_array(g.st.io, ov13b10_global_regs,
                                          env.after, env.fault)))

\* ov13b10.c:971-974
power_down(st) ==
  [ret |-> "OK", st |-> [pm_runtime_put(st) EXCEPT !.power_on = FALSE]]

\* faulty variant of power_state_held: the held state is not recognised
power_state_never_held(st, on) == FALSE

\* ov13b10.c:953: if (ov13b10->power_on == !!on) goto unlock_and_return
power_state_held(st, on) == st.power_on = on

ov13b10_s_power(st, on, env) ==
  IF power_state_held(st, on)
  THEN [ret |-> "OK", st |-> st]
  ELSE IF on
  THEN power_up(st, env)
  ELSE power_down(st)

(***************************************************************************)
(* The quick-stream ioctl (ov13b10.c:800-829); it takes no lock.           *)
(***************************************************************************)
ov13b10_ioctl(st, cmd, arg) ==
  CASE cmd = "RKMODULE_GET_MODULE_INFO" -> [ret |-> "OK", st |-> st]
    [] cmd = "RKMODULE_SET_QUICK_STREAM" ->
         With(ov13b10_write_reg(
                st.io, OV13B10_REG_CTRL_MODE, OV13B10_REG_VALUE_08BIT,
                IF arg # 0 THEN OV13B10_MODE_STREAMING
                           ELSE OV13B10_MODE_SW_STANDBY),
              LAMBDA w : [ret |-> w.ret, st |-> [st EXCEPT !.io = w.io]])
    [] OTHER -> [ret |-> "ENOIOCTLCMD", st |-> st]

(***************************************************************************)
(* Format negotiation (ov13b10.c:671-707).  fmt holds the requested width  *)
(* and height as u32 words and `which`; the result carries the format      *)
(* written back to the caller's structure.  The try format lives in the    *)
(* caller's pad state, not in the driver instance.                         *)
(***************************************************************************)
\* h_blank = mode->hts_def - mode->width, an s64 computed from u32 operands
hblank_of(mode) ==
  With(u32_sub(U32(mode.hts_def), U32(mode.width)),
       LAMBDA h : [minimum |-> h, maximum |-> h, step |-> 1,
                   default_value |-> h])

\* faulty variant of set_fmt_try: the trial commits the mode
set_fmt_try_commits(st, m) ==
  [ret |-> IF st.subdev_api THEN "OK" ELSE "ENOTTY",
   st  |-> [st EXCEPT !.cur_mode = m]]

\* ov13b10.c:686-692: a trial request leaves the instance alone
set_fmt_try(st, m) ==
  [ret |-> IF st.subdev_api THEN "OK" ELSE "ENOTTY", st |-> st]

\* vblank_def = mode->vts_def - mode->height
vblank_def_of(mode) == mode.vts_def - mode.height

\* ov13b10.c:693-702
set_fmt_active(st, m) ==
  [ret |-> "OK",
   st  |-> __v4l2_ctrl_modify_range(
             [st EXCEPT !.cur_mode = m,
                        !.hblank = hblank_of(supported_modes[m])],
             "VBLANK", vblank_def_of(supported_modes[m]),
             OV13B10_VTS_MAX - supported_modes[m].height,
             1, vblank_def_of(supported_modes[m]))]

\* ov13b10.c:682-684: the format written back to the caller
fmt_of(m) ==
  [width |-> U32(supported_modes[m].width),
   height |-> U32(supported_modes[m].height)]

set_fmt_mode(st, which, m) ==
  With(IF which = "TRY" THEN set_fmt_try(st, m) ELSE set_fmt_active(st, m),
       LAMBDA r : [ret |-> r.ret, st |-> r.st, fmt |-> fmt_of(m)])

ov13b10_set_fmt(st, fmt) ==
  set_fmt_mode(st, fmt.which, ov13b10_find_best_fit(fmt))

(***************************************************************************)
(* The instance after a successful probe (ov13b10.c:1229-1296, 1362,       *)
(* 1446-1448): mode 0, the controls at their defaults, the device          *)
(* runtime-suspended with no reference held.                               *)
(***************************************************************************)
ov13b10_initialize_controls(mode) ==
      [VBLANK |-> [minimum |-> vblank_def_of(mode),
                   maximum |-> OV13B10_VTS_MAX - mode.height,
                   step |-> 1, default_value |-> vblank_def_of(mode),
                   val |-> vblank_def_of(mode)],
       EXPOSURE |-> [minimum |-> OV13B10_EXPOSURE_MIN,
                     maximum |-> mode.vts_def - 16,
                     step |-> OV13B10_EXPOSURE_STEP,
                     default_value |-> mode.exp_def, val |-> mode.exp_def],
       ANALOGUE_GAIN |-> [minimum |-> OV13B10_GAIN_MIN,
                          maximum |-> OV13B10_GAIN_MAX,
                          step |-> OV13B10_GAIN_STEP,
                          default_value |-> OV13B10_GAIN_DEFAULT,
                          val |-> OV13B10_GAIN_DEFAULT],
       TEST_PATTERN |-> [minimum |-> 0, maximum |-> 4, step |-> 0,
                         default_value |-> 0, val |-> 0]]

(***************************************************************************)
(* The hardware part of ov13b10_probe (ov13b10.c:1411-1463), run on the    *)
(* instance as lines 1362 and 1407 filled it in.  env.id holds the bytes   *)
(* the device answers the identity read with, env.register_ok tells        *)
(* whether media_entity_pads_init and v4l2_async_register_subdev_sensor    *)
(* succeed.  pm_runtime_idle at the end finds no reference and suspends    *)
(* the device at once.                                                     *)
(***************************************************************************)
\* ov13b10.c:1415-1463: after the power-on sequence succeeded
probe_identify(st, env) ==
  With(ov13b10_check_sensor_id(st.io, env.id),
       LAMBDA c :
         IF c.ret # "OK" \/ ~env.register_ok
         THEN [ret |-> IF c.ret # "OK" THEN c.ret ELSE "EREGISTER",
               st  |-> power_run([st EXCEPT !.io = c.io], "err_power_off",
                                 [ret |-> "OK",
                                  steps |-> __ov13b10_power_off(st.res)])]
         ELSE [ret |-> "OK",
               st  |-> power_run([st EXCEPT !.io = c.io], "runtime_suspend",
                                 ov13b10_runtime_suspend(st.res))])

\* faulty variant of ov13b10_probe: the identity is read before the sensor
\* is powered
probe_reads_before_power(st, env) ==
  With(ov13b10_check_sensor_id(st.io, env.id),
       LAMBDA c :
         With(__ov13b10_power_on(st.res, env.rate_ok, env.clk_ok, env.reg_ok),
              LAMBDA p :
                [ret |-> IF p.ret # "OK" THEN p.ret ELSE c.ret,
                 st  |-> power_run([st EXCEPT !.io = c.io], "probe", p)]))

ov13b10_probe(st, env) ==
  With(__ov13b10_power_on(st.res, env.rate_ok, env.clk_ok, env.reg_ok),
       LAMBDA p :
         IF p.ret # "OK"
         THEN [ret |-> p.ret, st |-> power_run(st, "probe", p)]
         ELSE probe_identify(power_run(st, "probe", p), env))

(***************************************************************************)
(* The state machine.                                                      *)
(***************************************************************************)
VARIABLES
  streaming,        \* ov13b10->streaming
  power_on,         \* ov13b10->power_on
  cur_mode,         \* ov13b10->cur_mode, as an index into supported_modes
  ctrl,             \* vblank, exposure, anal_gain, test_pattern
  hblank,           \* the hblank control's range
  usage_count,      \* runtime-PM usage count of the device
  rpm_active,       \* the device is runtime-active (powered)
  rpm_idle_pending, \* an idle request is queued
  oops,             \* a task died inside the driver holding the mutex
  subdev_api,       \* the build has CONFIG_VIDEO_V4L2_SUBDEV_API
  trace,            \* bus transfers issued by the last call, in order
  last_ctrl_mode,   \* <<v>>: the last value the bus accepted for 0x0100
  call,             \* the last call: [op, arg, ret, out, pre]
  caller,           \* what the calls so far told the driver's caller
  res,              \* the optional resources probe obtained
  hw,               \* the runs of the power sequencer since the last call began
  tasks             \* the threads calling s_stream(on): where each is in it

vars == << streaming, power_on, cur_mode, ctrl, hblank, usage_count,
           rpm_active, rpm_idle_pending, oops, subdev_api, trace,
           last_ctrl_mode, call, caller, res, hw, tasks >>

\* the instance as the record the handlers work on, with a fresh bus double
Dev(bad) ==
  [streaming |-> streaming, power_on |-> power_on, cur_mode |-> cur_mode,
   ctrl |-> ctrl, hblank |-> hblank, usage |-> usage_count,
   active |-> rpm_active, idle_pending |-> rpm_idle_pending,
   io |-> [msgs |-> << >>, bad |-> bad], oops |-> oops,
   subdev_api |-> subdev_api, res |-> res, hw |-> << >>]

\* what the call's caller could see before it
Pre ==
  [streaming |-> streaming, power_on |-> power_on,
   usage_count |-> usage_count, cur_mode |-> cur_mode,
   ctrl |-> ctrl, hblank |-> hblank, active |-> rpm_active]

\* the mode-control value the device holds after msgs
ctrl_mode_after(last, msgs) ==
  LET hits == { i \in 1 .. Len(msgs) :
                  /\ msgs[i].ok
                  /\ Len(msgs[i].buf) = 3
                  /\ msgs[i].buf[1] * 256 + msgs[i].buf[2] = OV13B10_REG_CTRL_MODE }
  IN  IF hits = {} THEN last ELSE << msgs[Max(hits)].buf[3] >>

\* The caller of the subdev ops (the host's video pipeline) knows the
\* driver by the calls it made: caller.power and caller.stream are the power
\* and stream state its calls asked for and were granted, and caller.ordered
\* tells that it never asked for the stream without the power granted nor
\* dropped the power with the stream granted.
caller_after(c, op, arg, ret) ==
  CASE op = "s_power" ->
         [power   |-> IF ret = "OK" THEN arg ELSE c.power,
          stream  |-> c.stream,
          ordered |-> c.ordered /\ (arg \/ ~c.stream)]
    [] op = "s_stream" ->
         [power   |-> c.power,
          stream  |-> arg /\ ret = "OK",
          ordered |-> c.ordered /\ (~arg \/ c.power)]
    [] OTHER -> c

\* the device is bound to the driver: probe ran and succeeded
Bound == call.op # "unbound" /\ (call.op = "probe" => call.ret = "OK")

\* what a call hands back: a task that died in the driver hands back nothing
returned(d, ret) == IF d.oops THEN "OOPS" ELSE ret

Commit(d, op, arg, ret, out) ==
  /\ streaming' = d.streaming
  /\ power_on' = d.power_on
  /\ cur_mode' = d.cur_mode
  /\ ctrl' = d.ctrl
  /\ hblank' = d.hblank
  /\ usage_count' = d.usage
  /\ rpm_active' = d.active
  /\ rpm_idle_pending' = d.idle_pending
  /\ oops' = d.oops
  /\ subdev_api' = d.subdev_api
  /\ trace' = d.io.msgs
  /\ last_ctrl_mode' = ctrl_mode_after(last_ctrl_mode, d.io.msgs)
  /\ call' = [op |-> op, arg |-> arg, ret |-> returned(d, ret), out |-> out,
              pre |-> Pre]
  /\ caller' = caller_after(caller, op, arg, returned(d, ret))
  /\ res' = d.res
  /\ hw' = d.hw
  /\ tasks' = tasks

(***************************************************************************)
(* Bounds of the environment.                                              *)
(***************************************************************************)
\* a bus failure is placed at one of the first MaxFailPos transfers of a
\* call, or anywhere from the last entry of the register table on
MaxFailPos == 1

\* how many entries behind a register table the walk may read
MaxOverrun == 1

\* an entry that may lie behind a table: the head of the table that
\* follows it in the source
OverrunEntries == { mode_4208x3120_regs[1] }

RECURSIVE SeqsUpTo(_, _)
SeqsUpTo(S, n) ==
  IF n = 0
  THEN { << >> }
  ELSE LET P == SeqsUpTo(S, n - 1)
       IN  P \cup { Append(s, e) : s \in { p \in P : Len(p) = n - 1 }, e \in S }

Overruns == SeqsUpTo(OverrunEntries, MaxOverrun)

BadChoices(tail_from, total) ==
  { {} } \cup { {k} : k \in { j \in 1 .. total : j <= MaxFailPos \/ j >= tail_from } }

PowerOk == [rate_ok |-> TRUE, clk_ok |-> TRUE, reg_ok |-> TRUE]

PowerFailures ==
  IF rpm_active
  THEN {}
  ELSE { [rate_ok |-> TRUE, clk_ok |-> FALSE, reg_ok |-> TRUE],
         [rate_ok |-> FALSE, clk_ok |-> TRUE, reg_ok |-> FALSE],
         [rate_ok |-> FALSE, clk_ok |-> TRUE, reg_ok |-> TRUE] }

Env(bad, after, fault, p) ==
  [bad |-> bad, fault |-> fault, after |-> after,
   rate_ok |-> p.rate_ok, clk_ok |-> p.clk_ok, reg_ok |-> p.reg_ok]

\* the bus accepts every transfer and the walk behind a table meets
\* REG_NULL at once
QuietEnv == Env({}, << >>, FALSE, PowerOk)

\* the environment in which nothing fails and `after` lies behind the table
DryEnv(after) == Env({}, after, FALSE, PowerOk)

\* the answers of the environment to a handler that walks a register table
\* of n entries and, with no failure and `a` behind the table, issues
\* total[a] transfers
TableEnvs(n, total) ==
  { Env({}, << >>, FALSE, p) : p \in PowerFailures }
  \cup UNION {
    { Env(b, a, FALSE, PowerOk) : b \in BadChoices(n, total[a]) }
    \cup { Env({}, a, TRUE, PowerOk) } : a \in Overruns }

\* the answers to a handler that walks no table and issues up to `total`
\* transfers
PlainEnvs(total) ==
  { Env(b, << >>, FALSE, PowerOk) : b \in SUBSET (1 .. total) }

\* the optional resources a platform may or may not provide
\* (ov13b10.c:1370-1400)
ResourceChoices ==
  [power_gpio : BOOLEAN, pins_default : BOOLEAN, reset_gpio : BOOLEAN,
   pwdn_gpio : BOOLEAN, pins_sleep : BOOLEAN]

\* the bytes of the identity registers: those of the ov13b10, and others
ChipIdBytes == { << \h56, \h0d, \h42 >>, << \h56, \h0d, \h43 >> }

\* the answers of the environment to probe
ProbeEnvs ==
  { [bad |-> b, id |-> i, rate_ok |-> p.rate_ok, clk_ok |-> p.clk_ok,
     reg_ok |-> p.reg_ok, register_ok |-> r] :
      b \in { {}, {1} }, i \in ChipIdBytes,
      p \in { PowerOk,
              [rate_ok |-> TRUE, clk_ok |-> FALSE, reg_ok |-> TRUE],
              [rate_ok |-> TRUE, clk_ok |-> TRUE, reg_ok |-> FALSE],
              [rate_ok |-> FALSE, clk_ok |-> TRUE, reg_ok |-> TRUE] },
      r \in BOOLEAN }

\* the answers to a handler of a bound device that may have to resume it
ResumeEnvs ==
  { QuietEnv, Env({1}, << >>, FALSE, PowerOk) }
  \cup { Env({}, << >>, FALSE, p) : p \in PowerFailures }

(***************************************************************************)
(* Inputs.                                                                 *)
(***************************************************************************)
CtrlInputs ==
  [VBLANK |-> {76, 4000}, EXPOSURE |-> {4, 8000},
   ANALOGUE_GAIN |-> {}, TEST_PATTERN |-> {}]

\* the control requests of the stream and power state machine
FewCtrlInputs ==
  [VBLANK |-> {4000}, EXPOSURE |-> {}, ANALOGUE_GAIN |-> {\h0300},
   TEST_PATTERN |-> {}]

\* one request for each control that has a register
AllCtrlInputs ==
  [VBLANK |-> {4000}, EXPOSURE |-> {5000}, ANALOGUE_GAIN |-> {\h0300},
   TEST_PATTERN |-> {2}]

FmtRequests ==
  { [width |-> U32(2080), height |-> U32(1170)],
    [width |-> U32(4200), height |-> U32(3100)] }

(***************************************************************************)
(* The threads that call s_stream(on).  A thread's record holds the        *)
(* transfers its call issued so far, the result, its place in the call,    *)
(* whether the call holds a power reference it took, whether another       *)
(* thread was inside s_stream(on) when the call began, and cur_mode as the *)
(* call read it for the mode program (ov13b10.c:884), in the control setup *)
(* pass (ov13b10.c:1209) and at the streaming write (-1: not read).        *)
(***************************************************************************)
Tasks == { 1, 2 }

Task(msgs, ret, pc, took, overlap, prog_mode, setup_mode, stream_mode) ==
  [msgs |-> msgs, ret |-> ret, pc |-> pc, took |-> took, overlap |-> overlap,
   prog_mode |-> prog_mode, setup_mode |-> setup_mode,
   stream_mode |-> stream_mode]

NoTask == Task(<< >>, "OK", "idle", FALSE, FALSE, -1, -1, -1)

(***************************************************************************)
(* Initial state and actions.  A handler that takes the instance mutex     *)
(* cannot run once a task died holding it.                                 *)
(***************************************************************************)
Init ==
  /\ streaming = FALSE
  /\ power_on = FALSE
  /\ cur_mode = 0
  /\ ctrl = ov13b10_initialize_controls(supported_modes[0])
  /\ hblank = hblank_of(supported_modes[0])
  /\ usage_count = 0
  /\ rpm_active = FALSE
  /\ rpm_idle_pending = FALSE
  /\ oops = FALSE
  /\ subdev_api \in BOOLEAN
  /\ trace = << >>
  /\ last_ctrl_mode = << >>
  /\ call = [op |-> "probe", arg |-> << \h56, \h0d, \h42 >>, ret |-> "OK",
             out |-> 0,
             pre |-> [streaming |-> FALSE, power_on |-> FALSE,
                      usage_count |-> 0, cur_mode |-> 0,
                      ctrl |-> ov13b10_initialize_controls(supported_modes[0]),
                      hblank |-> hblank_of(supported_modes[0]),
                      active |-> FALSE]]
  /\ caller = [power |-> FALSE, stream |-> FALSE, ordered |-> TRUE]
  /\ res = Resources
  /\ hw = << >>
  /\ tasks = [t \in Tasks |-> NoTask]

S_stream(on, envs) ==
  /\ Bound
  /\ ~oops
  /\ \E env \in envs :
       \E r \in { ov13b10_s_stream(Dev(env.bad), on, env) } :
         Commit(r.st, "s_stream", on, r.ret, 0)

StreamEnvs(on) ==
  TableEnvs(Len(supported_modes[cur_mode].reg_list),
            [a \in Overruns |->
               Len(ov13b10_s_stream(Dev({}), on, DryEnv(a)).st.io.msgs)])

S_power(on, envs) ==
  /\ Bound
  /\ ~oops
  /\ \E env \in envs :
       \E r \in { ov13b10_s_power(Dev(env.bad), on, env) } :
         Commit(r.st, "s_power", on, r.ret, 0)

PowerEnvs(on) ==
  TableEnvs(Len(ov13b10_global_regs),
            [a \in Overruns |->
               Len(ov13b10_s_power(Dev({}), on, DryEnv(a)).st.io.msgs)])

Ioctl(cmd, arg) ==
  /\ Bound
  /\ \E env \in PlainEnvs(1) :
       \E r \in { ov13b10_ioctl(Dev(env.bad), cmd, arg) } :
         Commit(r.st, "ioctl", << cmd, arg >>, r.ret, 0)

S_ctrl(id, v) ==
  /\ Bound
  /\ ~oops
  /\ \E env \in PlainEnvs(2) :
       \E r \in { v4l2_s_ctrl(Dev(env.bad), id, v) } :
         Commit(r.st, "s_ctrl", << id, v >>, r.ret, 0)

Set_fmt(which, req, envs) ==
  /\ Bound
  /\ ~oops
  /\ \E env \in envs :
       \E r \in { ov13b10_set_fmt(Dev(env.bad),
                                   [width |-> req.width, height |-> req.height,
                                    which |-> which]) } :
         Commit(r.st, "set_fmt", << which, req >>, r.ret, r.fmt)

\* the queued idle request runs: ov13b10_runtime_suspend (ov13b10.c:1073-1082)
RuntimeSuspend ==
  /\ Bound
  /\ rpm_idle_pending
  /\ usage_count = 0
  /\ rpm_active
  /\ rpm_active' = FALSE
  /\ rpm_idle_pending' = FALSE
  /\ hw' = power_run([hw |-> hw, io |-> [msgs |-> trace]], "runtime_suspend",
                     ov13b10_runtime_suspend(res)).hw
  /\ UNCHANGED << streaming, power_on, cur_mode, ctrl, hblank, usage_count,
                  oops, subdev_api, trace, last_ctrl_mode, call, caller, res,
                  tasks >>

\* the instance before the hardware part of probe, with the optional
\* resources the platform provides
InitBind ==
  /\ streaming = FALSE
  /\ power_on = FALSE
  /\ cur_mode = 0
  /\ ctrl = ov13b10_initialize_controls(supported_modes[0])
  /\ hblank = hblank_of(supported_modes[0])
  /\ usage_count = 0
  /\ rpm_active = FALSE
  /\ rpm_idle_pending = FALSE
  /\ oops = FALSE
  /\ subdev_api = TRUE
  /\ trace = << >>
  /\ last_ctrl_mode = << >>
  /\ call = [op |-> "unbound", arg |-> 0, ret |-> "OK", out |-> 0,
             pre |-> [streaming |-> FALSE, power_on |-> FALSE,
                      usage_count |-> 0, cur_mode |-> 0,
                      ctrl |-> ov13b10_initialize_controls(supported_modes[0]),
                      hblank |-> hblank_of(supported_modes[0]),
                      active |-> FALSE]]
  /\ caller = [power |-> FALSE, stream |-> FALSE, ordered |-> TRUE]
  /\ res \in ResourceChoices
  /\ hw = << >>
  /\ tasks = [t \in Tasks |-> NoTask]

Probe(env) ==
  /\ call.op = "unbound"
  /\ \E r \in { ov13b10_probe(Dev(env.bad), env) } :
       Commit(r.st, "probe", env.id, r.ret, 0)

(***************************************************************************)
(* Spec: the stream and power state machine under every answer of the      *)
(* environment, with few control requests.                                 *)
(***************************************************************************)
Next ==
  \/ \E on \in BOOLEAN : S_stream(on, StreamEnvs(on))
  \/ \E on \in BOOLEAN : S_power(on, PowerEnvs(on))
  \/ \E arg \in {0, 1} : Ioctl("RKMODULE_SET_QUICK_STREAM", arg)
  \/ \E id \in CtrlIds : \E v \in FewCtrlInputs[id] : S_ctrl(id, v)
  \/ RuntimeSuspend

Spec == Init /\ [][Next]_vars

(***************************************************************************)
(* SpecCtrl: controls and format negotiation, with the stream started and  *)
(* stopped over a bus that accepts those transfers.                        *)
(***************************************************************************)
NextCtrl ==
  \/ \E on \in BOOLEAN : S_stream(on, {QuietEnv})
  \/ \E id \in CtrlIds : \E v \in CtrlInputs[id] : S_ctrl(id, v)
  \/ \E which \in {"TRY", "ACTIVE"} : \E req \in FmtRequests :
       Set_fmt(which, req, PlainEnvs(2))
  \/ RuntimeSuspend

SpecCtrl == Init /\ [][NextCtrl]_vars

(***************************************************************************)
(* SpecPower: probe and the power sequencer on every platform, the clock   *)
(* and the regulators failing or not.                                      *)
(***************************************************************************)
NextPower ==
  \/ \E env \in ProbeEnvs : Probe(env)
  \/ \E on \in BOOLEAN : S_power(on, ResumeEnvs)
  \/ \E on \in BOOLEAN : S_stream(on, ResumeEnvs)
  \/ RuntimeSuspend

SpecPower == InitBind /\ [][NextPower]_vars

(***************************************************************************)
(* SpecSet: every control set over a bus that may refuse the transfers,    *)
(* on a device that is suspended, powered or streaming.                    *)
(***************************************************************************)
NextSet ==
  \/ \E on \in BOOLEAN : S_stream(on, {QuietEnv})
  \/ \E on \in BOOLEAN : S_power(on, {QuietEnv})
  \/ \E id \in CtrlIds : \E v \in AllCtrlInputs[id] : S_ctrl(id, v)
  \/ RuntimeSuspend

SpecSet == Init /\ [][NextSet]_vars

(***************************************************************************)
(* SpecGain: the analogue gain swept over its range, one step per request  *)
(* and one request beyond the maximum, on a device that is started and     *)
(* stopped in between, over a bus that may refuse the transfers.           *)
(***************************************************************************)
GainRequests == { ctrl["ANALOGUE_GAIN"].val + OV13B10_GAIN_STEP }

NextGain ==
  \/ \E on \in BOOLEAN : S_stream(on, {QuietEnv})
  \/ \E v \in GainRequests : S_ctrl("ANALOGUE_GAIN", v)
  \/ RuntimeSuspend

SpecGain == Init /\ [][NextGain]_vars

(***************************************************************************)
(* SpecPattern: every entry of the test-pattern menu, and one index behind *)
(* it, requested on a device that is started and stopped in between.       *)
(***************************************************************************)
\* ARRAY_SIZE(ov13b10_test_pattern_menu)
TestPatternMenuSize == 5

PatternRequests == 0 .. TestPatternMenuSize

NextPattern ==
  \/ \E on \in BOOLEAN : S_stream(on, {QuietEnv})
  \/ \E p \in PatternRequests : S_ctrl("TEST_PATTERN", p)
  \/ RuntimeSuspend

SpecPattern == Init /\ [][NextPattern]_vars

(***************************************************************************)
(* SpecRace: two threads call s_stream(on), each running the call's three  *)
(* stretches, while further threads stop the stream and commit a format;   *)
(* whatever takes the instance mutex runs between the stretches.  The bus  *)
(* accepts every transfer.                                                 *)
(***************************************************************************)
\* the instance and the bus after a stretch of a call; the call is recorded
\* when it has returned
Stretch(d, r, arg) ==
  /\ streaming' = d.streaming
  /\ power_on' = d.power_on
  /\ cur_mode' = d.cur_mode
  /\ ctrl' = d.ctrl
  /\ hblank' = d.hblank
  /\ usage_count' = d.usage
  /\ rpm_active' = d.active
  /\ rpm_idle_pending' = d.idle_pending
  /\ oops' = d.oops
  /\ subdev_api' = d.subdev_api
  /\ trace' = d.io.msgs
  /\ last_ctrl_mode' = ctrl_mode_after(last_ctrl_mode, d.io.msgs)
  /\ call' = IF r.pc = "idle"
             THEN [op |-> "s_stream", arg |-> arg, ret |-> returned(d, r.ret),
                   out |-> 0, pre |-> Pre]
             ELSE call
  /\ caller' = IF r.pc = "idle"
               THEN caller_after(caller, "s_stream", arg, returned(d, r.ret))
               ELSE caller
  /\ res' = d.res
  /\ hw' = d.hw

Inside(t) == tasks[t].pc # "idle"

\* overlapping starts leave references behind: a start is not begun with
\* this many references held
MaxRaceRefs == 2

StartEnter(t, bad) ==
  /\ Bound
  /\ ~oops
  /\ ~Inside(t)
  /\ usage_count < MaxRaceRefs
  /\ \E r \in { s_stream_on_enter(Dev(bad), Env(bad, << >>, FALSE, PowerOk)) } :
       /\ Stretch(r.st, r, TRUE)
       /\ tasks' = [tasks EXCEPT ![t] =
                      Task(r.st.io.msgs, r.ret, r.pc, r.st.usage > usage_count,
                           \E u \in Tasks \ {t} : Inside(u),
                           IF r.st.io.msgs # << >> THEN cur_mode ELSE -1,
                           -1, -1)]

StartSetup(t, bad) ==
  /\ ~oops
  /\ tasks[t].pc = "setup"
  /\ \E r \in { s_stream_on_setup(Dev(bad)) } :
       /\ Stretch(r.st, r, TRUE)
       /\ tasks' = [tasks EXCEPT ![t] =
                      Task(tasks[t].msgs \o r.st.io.msgs, r.ret, r.pc,
                           tasks[t].took, tasks[t].overlap, tasks[t].prog_mode,
                           cur_mode, -1)]

StartLeave(t, bad) ==
  /\ ~oops
  /\ tasks[t].pc = "relock"
  /\ \E r \in { s_stream_on_leave(Dev(bad), tasks[t].ret) } :
       /\ Stretch(r.st, r, TRUE)
       /\ tasks' = [tasks EXCEPT ![t] =
                      Task(tasks[t].msgs \o r.st.io.msgs, r.ret, r.pc,
                           tasks[t].took /\ r.ret = "OK", tasks[t].overlap,
                           tasks[t].prog_mode, tasks[t].setup_mode,
                           IF r.st.io.msgs # << >> THEN cur_mode ELSE -1)]

\* the format committed by another thread: the smallest mode
RaceFmtRequests == { [width |-> U32(2080), height |-> U32(1170)] }

NextRace ==
  \/ \E t \in Tasks : StartEnter(t, {})
  \/ \E t \in Tasks : StartSetup(t, {})
  \/ \E t \in Tasks : StartLeave(t, {})
  \/ S_stream(FALSE, {QuietEnv})
  \/ \E req \in RaceFmtRequests : Set_fmt("ACTIVE", req, {QuietEnv})
  \/ RuntimeSuspend

SpecRace == Init /\ [][NextRace]_vars

(***************************************************************************)
(* SpecQuick: s_stream and the ioctls over a bus that accepts every        *)
(* transfer.                                                               *)
(***************************************************************************)
QuietIoctl(cmd, arg) ==
  /\ Bound
  /\ \E r \in { ov13b10_ioctl(Dev({}), cmd, arg) } :
       Commit(r.st, "ioctl", << cmd, arg >>, r.ret, 0)

NextQuick ==
  \/ \E on \in BOOLEAN : S_stream(on, {QuietEnv})
  \/ \E cmd \in { "RKMODULE_GET_MODULE_INFO", "RKMODULE_SET_QUICK_STREAM" },
          arg \in {0, 1, 2} : QuietIoctl(cmd, arg)
  \/ RuntimeSuspend

SpecQuick == Init /\ [][NextQuick]_vars

(***************************************************************************)
(* SpecReg: the register access functions on their own.  ov13b10_write_reg *)
(* and ov13b10_read_reg take every length from 0 to 5; ov13b10_write_array *)
(* walks a table of the driver and the memory behind it, which holds a     *)
(* word equal to REG_NULL followed by further entries, or no such word.    *)
(***************************************************************************)
RegAddrs == { OV13B10_REG_CTRL_MODE, OV13B10_REG_EXPOSURE }

RegLens == 0 .. 5

RegVals == { \h00, \h01020304 }

RegData == { << \h56, \h0d, \h42, \h00 >>, << \hff, \h00, \h80, \h01 >> }

RegTables == { ov13b10_global_regs, mode_4208x3120_regs, mode_2080x1170_regs }

\* the memory behind a table: entries, and then either a terminator with
\* more entries behind it or nothing the walk may read
BehindTable ==
  { a \o << << REG_NULL, \h00 >>, mode_4208x3120_regs[2] >> : a \in Overruns }
  \cup Overruns

Write_reg(reg, len, val, bad) ==
  /\ Bound
  /\ \E w \in { ov13b10_write_reg(Dev(bad).io, reg, len, val) } :
       Commit([Dev(bad) EXCEPT !.io = w.io], "write_reg",
              << reg, len, val >>, w.ret, 0)

Read_reg(reg, len, data, bad) ==
  /\ Bound
  /\ \E r \in { ov13b10_read_reg(Dev(bad).io, reg, len, data) } :
       Commit([Dev(bad) EXCEPT !.io = r.io], "read_reg",
              << reg, len, data >>, r.ret, r.val)

Write_array(regs, behind, bad) ==
  /\ Bound
  /\ \E a \in { ov13b10_write_array(Dev(bad).io, regs, behind, TRUE) } :
       Commit([Dev(bad) EXCEPT !.io = a.io, !.oops = a.oops], "write_array",
              << regs, behind >>, a.ret, 0)

\* A device that keeps one byte per register address and moves to the next
\* address after every byte of a transfer: the byte it holds at address a
\* after the transfers msgs, 0 where none was stored.
stored_byte(msgs, a) ==
  LET hits == { i \in 1 .. Len(msgs) :
                  /\ msgs[i].ok
                  /\ "rd" \notin DOMAIN msgs[i]
                  /\ a >= msgs[i].buf[1] * 256 + msgs[i].buf[2]
                  /\ a < msgs[i].buf[1] * 256 + msgs[i].buf[2]
                           + Len(msgs[i].buf) - 2 }
      m == msgs[Max(hits)]
  IN  IF hits = {} THEN 0 ELSE m.buf[3 + a - (m.buf[1] * 256 + m.buf[2])]

stored_bytes(msgs, reg, len) == [j \in 1 .. len |-> stored_byte(msgs, reg + j - 1)]

\* ov13b10_read_reg right after an ov13b10_write_reg, answered by that
\* device with the bytes the write left in it
Read_back(reg, len, bad) ==
  /\ Bound
  /\ call.op = "write_reg"
  /\ \E r \in { ov13b10_read_reg(Dev(bad).io, reg, len,
                                  stored_bytes(trace, reg, len)) } :
       Commit([Dev(bad) EXCEPT !.io = r.io], "read_back",
              << reg, len, [reg |-> call.arg[1], len |-> call.arg[2],
                            val |-> call.arg[3], ret |-> call.ret] >>,
              r.ret, r.val)

NextReg ==
  \/ \E reg \in RegAddrs, len \in RegLens, val \in RegVals, bad \in { {}, {1} } :
       Write_reg(reg, len, val, bad)
  \/ \E reg \in RegAddrs, len \in RegLens, data \in RegData, bad \in { {}, {1} } :
       Read_reg(reg, len, data, bad)
  \/ \E regs \in RegTables, behind \in BehindTable :
       \E bad \in BadChoices(Len(regs), Len(regs) + Len(behind)) :
         Write_array(regs, behind, bad)

SpecReg == Init /\ [][NextReg]_vars

(***************************************************************************)
(* SpecTrip: ov13b10_write_reg followed by ov13b10_read_reg on a device    *)
(* that keeps the bytes written to it, for the lengths both accept.        *)
(***************************************************************************)
TripAddrs == { OV13B10_REG_EXPOSURE, OV13B10_REG_VTS }

TripVals == { \h00, \h80, \h1234, \hfedcba, \h01020304 }

NextTrip ==
  \/ \E reg \in TripAddrs, len \in 1 .. 4, val \in TripVals, bad \in { {}, {1} } :
       Write_reg(reg, len, val, bad)
  \/ \E reg \in TripAddrs, len \in 1 .. 4, bad \in { {}, {1} } :
       Read_back(reg, len, bad)

SpecTrip == Init /\ [][NextTrip]_vars

(***************************************************************************)
(* SpecFit: format requests over the whole range of the 32-bit width and   *)
(* height fields of the request, on a stopped device.                      *)
(***************************************************************************)
FitWidths ==
  { U32(0), U32(2080), U32(2092), U32(4160), U32(4184), U32(4200), U32(4208),
    << 32767, 65535 >>, << 32768, 4208 >>, << 65535, 65535 >> }

FitHeights ==
  { U32(0), U32(1170), U32(1365), U32(3100), U32(3120), << 65535, 65535 >> }

FitRequests == { [width |-> w, height |-> h] : w \in FitWidths, h \in FitHeights }

NextFit ==
  \E which \in {"TRY", "ACTIVE"} : \E req \in FitRequests :
    Set_fmt(which, req, {QuietEnv})

SpecFit == Init /\ [][NextFit]_vars

(***************************************************************************)
(* Properties.  A property about a call reads the record of the last call  *)
(* (call), the bus transfers it issued (trace) and the instance after it.  *)
(***************************************************************************)
\* the register a recorded transfer addresses, and the transfer that writes
\* val of len bytes to reg
msg_reg(m) == m.buf[1] * 256 + m.buf[2]

writes(m, reg, len, val) == m.buf = write_reg_buf(reg, len, val)

StartedStream ==
  /\ call.op = "s_stream"
  /\ call.arg = TRUE
  /\ ~call.pre.streaming

\* the registers the control setup pass writes, with the current values
ControlWrites ==
  { << OV13B10_REG_VTS, OV13B10_REG_VALUE_16BIT,
       ctrl["VBLANK"].val + supported_modes[cur_mode].height >>,
    << OV13B10_REG_EXPOSURE, OV13B10_REG_VALUE_24BIT, ctrl["EXPOSURE"].val >>,
    << OV13B10_REG_GAIN_H, OV13B10_REG_VALUE_08BIT,
       gain_h(ctrl["ANALOGUE_GAIN"].val) >>,
    << OV13B10_REG_GAIN_L, OV13B10_REG_VALUE_08BIT,
       gain_l(ctrl["ANALOGUE_GAIN"].val) >>,
    << OV13B10_REG_TEST_PATTERN, OV13B10_REG_VALUE_08BIT,
       test_pattern_val(ctrl["TEST_PATTERN"].val) >> }

ControlRegs == { w[1] : w \in ControlWrites }

ProgramLen == Len(supported_modes[cur_mode].reg_list)

\* C1: a successful s_stream(on) from Stopped issues, in this order, one
\* write per entry of the active mode's register program, then the writes
\* of the control setup pass (every control's register, with its current
\* value, and nothing else), then one write of the streaming value to the
\* mode-control register, which is the only write to that register.
C1_StartWriteOrder ==
  (StartedStream /\ call.ret = "OK") =>
    /\ Len(trace) > ProgramLen
    /\ \A i \in 1 .. ProgramLen :
         writes(trace[i], supported_modes[cur_mode].reg_list[i][1],
                OV13B10_REG_VALUE_08BIT,
                supported_modes[cur_mode].reg_list[i][2])
    /\ \A i \in (ProgramLen + 1) .. (Len(trace) - 1) :
         msg_reg(trace[i]) \in ControlRegs
    /\ \A w \in ControlWrites :
         \E i \in (ProgramLen + 1) .. (Len(trace) - 1) :
           writes(trace[i], w[1], w[2], w[3])
    /\ writes(trace[Len(trace)], OV13B10_REG_CTRL_MODE,
              OV13B10_REG_VALUE_08BIT, OV13B10_MODE_STREAMING)
    /\ \A i \in 1 .. (Len(trace) - 1) :
         msg_reg(trace[i]) # OV13B10_REG_CTRL_MODE

\* C2: an s_stream(on) from Stopped that returns an error (from the power
\* reference, the mode program, the control setup pass or the streaming
\* write) leaves the streaming flag false and the usage count as it was
\* before the call.
C2_StartFailureRollsBack ==
  (StartedStream /\ call.ret \notin {"OK", "OOPS"}) =>
    /\ ~streaming
    /\ usage_count = call.pre.usage_count

\* the control setup pass of a start failed: the mode program went through
\* and a later transfer was refused
C2_Witness ==
  /\ StartedStream
  /\ call.ret = "EIO"
  /\ Len(trace) > ProgramLen + 1
  /\ ~streaming
  /\ usage_count = call.pre.usage_count

StoppedStream ==
  /\ call.op = "s_stream"
  /\ call.arg = FALSE
  /\ call.pre.streaming

\* C3: s_stream(off) while Streaming ends with the streaming flag false,
\* returns success and gives back the reference held for streaming, also
\* when the bus refuses the standby write.
C3_StopAlwaysStops ==
  StoppedStream =>
    /\ ~streaming
    /\ call.ret = "OK"
    /\ usage_count = call.pre.usage_count - 1

\* a stop whose standby write the bus refused
C3_Witness ==
  /\ StoppedStream
  /\ Len(trace) = 1
  /\ ~trace[1].ok
  /\ msg_reg(trace[1]) = OV13B10_REG_CTRL_MODE
  /\ ~streaming

\* C4: an s_stream request for the state already held issues no bus write,
\* takes no reference, changes nothing and returns success, whereas the
\* successful s_stream(on) before it did issue writes and take a reference.
C4_HeldStateNoop ==
  /\ (call.op = "s_stream" /\ call.arg = call.pre.streaming) =>
       /\ trace = << >>
       /\ usage_count = call.pre.usage_count
       /\ streaming = call.pre.streaming
       /\ call.ret = "OK"
  /\ (StartedStream /\ call.ret = "OK") =>
       /\ trace # << >>
       /\ usage_count = call.pre.usage_count + 1

\* a second s_stream(on) on a streaming instance
C4_Witness ==
  /\ call.op = "s_stream"
  /\ call.arg = TRUE
  /\ call.pre.streaming
  /\ streaming
  /\ trace = << >>
  /\ call.ret = "OK"

\* C5 as stated: in every reachable state the streaming flag implies the
\* power_on flag.
C5_StreamingImpliesPowerOn == streaming => power_on

\* C5 as amended: when the caller asked for the stream only with the power
\* granted and dropped the power only with the stream stopped, the
\* streaming flag implies the power_on flag.
C5_OrderedStreamingImpliesPowerOn ==
  caller.ordered => (streaming => power_on)

\* an ordered caller brought the instance to streaming with the power on
C5_Witness ==
  /\ caller.ordered
  /\ streaming
  /\ power_on
  /\ call.op = "s_stream"
  /\ trace # << >>

\* C6: no call issues a register transfer while power_on is false.  The
\* program that s_power(on) itself writes belongs to the transition to On,
\* and the callers looked at are those that keep the order of power and
\* stream requests, so that what is left is the driver's own doing.
C6_NoTransferWhilePowerOff ==
  (caller.ordered /\ trace # << >> /\ call.op # "s_power") =>
    call.pre.power_on

\* C7: a committed set_fmt issued while the streaming flag is true leaves
\* cur_mode unchanged.
C7_ModeFixedWhileStreaming ==
  (call.op = "set_fmt" /\ call.arg[1] = "ACTIVE" /\ call.pre.streaming) =>
    cur_mode = call.pre.cur_mode

\* the mode whose width and height a set_fmt handed back
returned_mode ==
  CHOOSE m \in ModeIdx : call.out = [width |-> U32(supported_modes[m].width),
                                     height |-> U32(supported_modes[m].height)]

\* C8: a trial set_fmt hands back the width and height of the mode a
\* committed set_fmt of the same request selects and leaves cur_mode and the
\* hblank, vblank and exposure controls (range, default, value) as they
\* were; cur_mode and the hblank range differ from before a call only after
\* a committed set_fmt, which makes the handed-back mode the active one.
C8_TrySetFmtLeavesInstance ==
  /\ (call.op = "set_fmt" /\ call.arg[1] = "TRY") =>
       /\ \E m \in ModeIdx :
            /\ call.out = [width |-> U32(supported_modes[m].width),
                           height |-> U32(supported_modes[m].height)]
            /\ m = ov13b10_find_best_fit(call.arg[2])
       /\ cur_mode = call.pre.cur_mode
       /\ hblank = call.pre.hblank
       /\ ctrl["VBLANK"] = call.pre.ctrl["VBLANK"]
       /\ ctrl["EXPOSURE"] = call.pre.ctrl["EXPOSURE"]
  /\ (call.op = "set_fmt" /\ call.arg[1] = "ACTIVE") =>
       /\ cur_mode = ov13b10_find_best_fit(call.arg[2])
       /\ cur_mode = returned_mode
  /\ (cur_mode # call.pre.cur_mode \/ hblank # call.pre.hblank) =>
       (call.op = "set_fmt" /\ call.arg[1] = "ACTIVE")

\* a trial request for 2080x1170 on an instance in the 4208x3120 mode: the
\* small mode is handed back and the instance stays in the large one
C8_Witness ==
  /\ call.op = "set_fmt"
  /\ call.arg[1] = "TRY"
  /\ call.arg[2] = [width |-> U32(2080), height |-> U32(1170)]
  /\ call.out = [width |-> U32(2080), height |-> U32(1170)]
  /\ cur_mode = 0
  /\ hblank = hblank_of(supported_modes[0])

(***************************************************************************)
(* The distance of C9 in the integers: |mode.width - width| +              *)
(* |mode.height - height| does not fit a machine word, so it is computed   *)
(* on numbers written <<high, low>> with low below 2^16 and high unbounded.*)
(***************************************************************************)
wide_leq(a, b) == a[1] < b[1] \/ (a[1] = b[1] /\ a[2] <= b[2])

wide_minus(a, b) ==
  IF a[2] >= b[2] THEN << a[1] - b[1], a[2] - b[2] >>
                  ELSE << a[1] - b[1] - 1, a[2] + Half - b[2] >>

wide_absdiff(a, b) == IF wide_leq(b, a) THEN wide_minus(a, b) ELSE wide_minus(b, a)

wide_plus(a, b) ==
  << a[1] + b[1] + ((a[2] + b[2]) \div Half), (a[2] + b[2]) % Half >>

manhattan(m, req) ==
  wide_plus(wide_absdiff(U32(supported_modes[m].width), req.width),
            wide_absdiff(U32(supported_modes[m].height), req.height))

\* C9: for every requested (width, height) the mode selected has the least
\* |mode.width - width| + |mode.height - height| of the catalog, and the
\* lowest index among the modes of that distance.
C9_BestFitMinimisesDistance ==
  call.op = "set_fmt" =>
    \A k \in ModeIdx :
      /\ wide_leq(manhattan(returned_mode, call.arg[2]),
                  manhattan(k, call.arg[2]))
      /\ manhattan(k, call.arg[2]) = manhattan(returned_mode, call.arg[2])
           => returned_mode <= k

\* the vertical blank ov13b10_set_ctrl was called with: the requested value
\* brought into the control's range
vblank_set == round_to_range(ctrl["VBLANK"], call.arg[2])

\* C10: after vertical blank was set to v through ov13b10_set_ctrl, with
\* the device in use or not and whatever the value before, the exposure
\* control's maximum is cur_mode.height + v - 16 and its minimum, step and
\* default are as before.
C10_VblankMovesExposureMax ==
  (call.op = "s_ctrl" /\ call.arg[1] = "VBLANK") =>
    /\ ctrl["EXPOSURE"].maximum =
         supported_modes[cur_mode].height + vblank_set - 16
    /\ ctrl["EXPOSURE"].minimum = call.pre.ctrl["EXPOSURE"].minimum
    /\ ctrl["EXPOSURE"].step = call.pre.ctrl["EXPOSURE"].step
    /\ ctrl["EXPOSURE"].default_value =
         call.pre.ctrl["EXPOSURE"].default_value

\* vertical blank set to 76 on the 4208x3120 mode after it had been set to
\* 4000, the device in use: the maximum went from 7104 to 3180
C10_Witness ==
  /\ call.op = "s_ctrl"
  /\ call.arg = << "VBLANK", 76 >>
  /\ cur_mode = 0
  /\ call.pre.ctrl["VBLANK"].val = 4000
  /\ call.pre.ctrl["EXPOSURE"].maximum = 7104
  /\ ctrl["EXPOSURE"].maximum = 3180
  /\ trace # << >>

\* C11: after every committed set_fmt, with m the mode it selected, the
\* vertical-blank control has maximum OV13B10_VTS_MAX - m.height and default
\* m.vts_def - m.height, and the exposure control's maximum is
\* m.height + (current vertical blank) - 16.
C11_SetFmtRederivesExposureMax ==
  (call.op = "set_fmt" /\ call.arg[1] = "ACTIVE") =>
    /\ ctrl["VBLANK"].maximum =
         OV13B10_VTS_MAX - supported_modes[cur_mode].height
    /\ ctrl["VBLANK"].default_value =
         supported_modes[cur_mode].vts_def - supported_modes[cur_mode].height
    /\ ctrl["EXPOSURE"].maximum =
         supported_modes[cur_mode].height + ctrl["VBLANK"].val - 16

\* the device was in use when the last call began: runtime-active with a
\* reference held, which is what pm_runtime_get_if_in_use looks at
InUseBefore == call.pre.active /\ call.pre.usage_count > 0

\* the value the last s_ctrl handed to ov13b10_set_ctrl
ctrl_set ==
  IF call.arg[1] = "TEST_PATTERN"
  THEN call.arg[2]
  ELSE round_to_range(ctrl[call.arg[1]], call.arg[2])

\* C12: a control set while the device is not in use issues no bus write,
\* leaves the usage count alone, returns success and records the value; a
\* successful s_stream(on) from Stopped writes every control's register
\* with the recorded value, the bus accepting the write; a control set
\* while the device is in use issues the write and leaves the usage count
\* as it was, whether the write is accepted or refused.
C12_SetCtrlGate ==
  /\ (call.op = "s_ctrl" /\ ~InUseBefore) =>
       /\ trace = << >>
       /\ usage_count = call.pre.usage_count
       /\ call.ret = "OK"
       /\ ctrl[call.arg[1]].val = ctrl_set
  /\ (call.op = "s_ctrl" /\ InUseBefore) =>
       /\ trace # << >>
       /\ usage_count = call.pre.usage_count
  /\ (StartedStream /\ call.ret = "OK") =>
       \A w \in ControlWrites :
         \E i \in 1 .. Len(trace) :
           trace[i].ok /\ writes(trace[i], w[1], w[2], w[3])

\* the test pattern set to 2 on a suspended device: nothing on the bus, the
\* value recorded
C12_Witness ==
  /\ call.op = "s_ctrl"
  /\ call.arg = << "TEST_PATTERN", 2 >>
  /\ ~InUseBefore
  /\ trace = << >>
  /\ call.pre.ctrl["TEST_PATTERN"].val = 0
  /\ ctrl["TEST_PATTERN"].val = 2
  /\ call.ret = "OK"

(***************************************************************************)
(* Properties of the power sequencer read the runs of hw: a run of the     *)
(* power-on sequence is one made by probe or by the runtime resume.        *)
(***************************************************************************)
PowerOnRuns ==
  { hw[i] : i \in { j \in 1 .. Len(hw) : hw[j].by \in {"probe", "runtime_resume"} } }

PowerOffRuns ==
  { hw[i] : i \in { j \in 1 .. Len(hw) :
                      hw[j].by \in {"err_power_off", "runtime_suspend"} } }

\* the positions at which a run took the step name with the value v
step_at(run, name, v) ==
  { k \in 1 .. Len(run.steps) : run.steps[k][1] = name /\ run.steps[k][2] = v }

did(run, name, v) == step_at(run, name, v) # {}

\* C13: a power-on sequence in which setting the clock rate failed ends
\* with an error, without the clock enabled and without the supply rails
\* enabled.
C13_ClockRateFailureAborts ==
  \A run \in PowerOnRuns :
    did(run, "clk_set_rate", FALSE) =>
      /\ run.ret # "OK"
      /\ ~did(run, "clk_enable", 1)
      /\ ~did(run, "regulators", 1)

\* C14: a power-on sequence that fails at the supply rails ends by disabling
\* the clock it had enabled and has neither released reset nor asserted the
\* power-down line; one that fails at enabling the clock has set the
\* power-enable signal and the default pin configuration (those the
\* platform has) and nothing after them, takes neither back and does not
\* touch the rails.  In both cases the error is returned and no power-off
\* sequence is run.
C14_PowerOnPartialRollback ==
  \A run \in PowerOnRuns :
    /\ run.ret = "EREG" =>
         /\ did(run, "clk_enable", 1)
         /\ run.steps[Len(run.steps)][1] = "clk_enable"
         /\ run.steps[Len(run.steps)][2] = 0
         /\ ~did(run, "reset_gpio", 1)
         /\ ~did(run, "pwdn_gpio", 1)
         /\ ~did(run, "regulators", 1)
         /\ PowerOffRuns = {}
         /\ call.ret = "EREG"
    /\ run.ret = "ECLK" =>
         /\ res.power_gpio => did(run, "power_gpio", 1)
         /\ res.pins_default => did(run, "pinctrl", "default")
         /\ run.steps[Len(run.steps)][1] = "clk_set_rate"
         /\ ~did(run, "power_gpio", 0)
         /\ ~did(run, "pinctrl", "sleep")
         /\ ~did(run, "clk_enable", 1)
         /\ ~did(run, "clk_enable", 0)
         /\ ~did(run, "regulators", 1)
         /\ ~did(run, "regulators", 0)
         /\ PowerOffRuns = {}
         /\ call.ret = "ECLK"

\* the runtime resume under s_power(on) failed at the supply rails on a
\* platform with every optional resource: the clock went on and off again
C14_Witness ==
  /\ call.op = "s_power"
  /\ call.arg = TRUE
  /\ call.ret = "EREG"
  /\ res = Resources
  /\ \E run \in PowerOnRuns :
       /\ run.ret = "EREG"
       /\ did(run, "clk_enable", 1)
       /\ did(run, "clk_enable", 0)
       /\ did(run, "reset_gpio", 0)

\* the power-on steps in the order of C15, for a platform with every
\* optional resource; a settle time or clock rate result is left open (0)
PowerOnOrder ==
  << <<"power_gpio", 1>>, <<"usleep", 0>>, <<"pinctrl", "default">>,
     <<"clk_set_rate", 0>>, <<"clk_enable", 1>>, <<"reset_gpio", 0>>,
     <<"regulators", 1>>, <<"reset_gpio", 1>>, <<"usleep", 0>>,
     <<"pwdn_gpio", 1>>, <<"usleep", 0>> >>

\* the platform has the resource a step drives
has_step(r, step) ==
  CASE step[1] = "power_gpio" -> r.power_gpio
    [] step[1] = "reset_gpio" -> r.reset_gpio
    [] step[1] = "pwdn_gpio" -> r.pwdn_gpio
    [] step[1] = "pinctrl" ->
         IF step[2] = "default" THEN r.pins_default ELSE r.pins_sleep
    [] OTHER -> TRUE

\* the steps taken are those of order that the platform has, in that order
follows_order(steps, order, r) ==
  LET want == SelectSeq(order, LAMBDA step : has_step(r, step))
  IN  /\ Len(steps) = Len(want)
      /\ \A k \in 1 .. Len(want) :
           /\ steps[k][1] = want[k][1]
           /\ want[k][1] \notin {"usleep", "clk_set_rate"} =>
                steps[k][2] = want[k][2]

\* n = ceil(8192 / 24)
is_boot_delay(n) == 24 * n >= 8192 /\ 24 * (n - 1) < 8192

\* C15: a successful power-on sequence takes its steps in the order
\* power-enable, settle, default pins, clock rate, clock enable, reset to
\* 0, supply rails, reset to 1, settle, power-down line, boot delay of
\* ceil(8192 / 24) microseconds; every bus transfer of probe, s_power and
\* s_stream is issued on a device whose power-on sequence has completed,
\* before the call or in it, and in the call the sequence comes before the
\* first transfer; a call whose power-on sequence failed issues none.
C15_PowerOnOrderThenRegisters ==
  /\ \A run \in PowerOnRuns :
       /\ run.ret = "OK" =>
            /\ follows_order(run.steps, PowerOnOrder, res)
            /\ is_boot_delay(run.steps[Len(run.steps)][2])
       /\ run.at = 0
       /\ run.ret # "OK" => trace = << >>
  /\ (call.op \in {"probe", "s_power", "s_stream"} /\ trace # << >>) =>
       \/ call.pre.active
       \/ \E run \in PowerOnRuns : run.ret = "OK"

\* probe on a platform with every optional resource: the eleven steps, then
\* the identity read, answered with the chip id
C15_Witness ==
  /\ call.op = "probe"
  /\ call.ret = "OK"
  /\ res = Resources
  /\ Len(trace) = 1
  /\ trace[1].ok
  /\ msg_reg(trace[1]) = OV13B10_REG_CHIP_ID
  /\ Len(hw[1].steps) = Len(PowerOnOrder)
  /\ hw[1].by = "probe"
  /\ hw[1].steps[Len(hw[1].steps)][2] = 342

\* the power-off steps in the order of C16, for a platform with every
\* optional resource
PowerOffOrder ==
  << <<"pwdn_gpio", 0>>, <<"clk_enable", 0>>, <<"reset_gpio", 0>>,
     <<"pinctrl", "sleep">>, <<"power_gpio", 0>>, <<"regulators", 0>> >>

\* C16: every power-off sequence (the runtime suspend, and the error path
\* of probe) takes the steps power-down line to 0, clock off, reset to 0,
\* sleep pin configuration, power-enable to 0, supply rails off, in this
\* order, leaving out exactly the steps whose resource the platform lacks.
C16_PowerOffOrder ==
  \A run \in PowerOffRuns : follows_order(run.steps, PowerOffOrder, res)

\* the runtime suspend after s_power(off) on a platform without the sleep
\* pin configuration and without the power-enable gpio: the four steps left
C16_Witness ==
  /\ call.op = "s_power"
  /\ call.arg = FALSE
  /\ ~res.pins_sleep /\ ~res.power_gpio /\ res.pwdn_gpio /\ res.reset_gpio
  /\ \E run \in PowerOffRuns :
       /\ run.by = "runtime_suspend"
       /\ run.steps = << <<"pwdn_gpio", 0>>, <<"clk_enable", 0>>,
                         <<"reset_gpio", 0>>, <<"regulators", 0>> >>

\* C17: an s_power request for the power state already held returns
\* success with no bus transfer, no run of the power sequencer, the usage
\* count as before and the flags, the mode and the controls unchanged.
C17_HeldPowerStateNoop ==
  (call.op = "s_power" /\ call.arg = call.pre.power_on) =>
    /\ call.ret = "OK"
    /\ trace = << >>
    /\ PowerOnRuns = {}
    /\ usage_count = call.pre.usage_count
    /\ power_on = call.pre.power_on
    /\ streaming = call.pre.streaming
    /\ cur_mode = call.pre.cur_mode
    /\ ctrl = call.pre.ctrl
    /\ hblank = call.pre.hblank

\* a second s_power(on) on an instance that is on and holds its reference
C17_Witness ==
  /\ call.op = "s_power"
  /\ call.arg = TRUE
  /\ call.pre.power_on
  /\ call.pre.usage_count > 0
  /\ power_on
  /\ trace = << >>
  /\ call.ret = "OK"

PoweredUp ==
  /\ call.op = "s_power"
  /\ call.arg = TRUE
  /\ ~call.pre.power_on

\* C18: after s_power(on) from Off, power_on is true exactly when the call
\* returned success, and then the call holds one more reference, the device
\* is runtime-active and the bus accepted one write for every entry of
\* ov13b10_global_regs, in order, before anything else; when the call
\* returned an error, from the reference or from a write of the program,
\* power_on is false and the usage count is as before the call.
C18_PowerOnAfterProgram ==
  PoweredUp =>
    /\ power_on = (call.ret = "OK")
    /\ power_on =>
         /\ usage_count = call.pre.usage_count + 1
         /\ rpm_active
         /\ Len(trace) >= Len(ov13b10_global_regs)
         /\ \A i \in 1 .. Len(ov13b10_global_regs) :
              /\ trace[i].ok
              /\ writes(trace[i], ov13b10_global_regs[i][1],
                        OV13B10_REG_VALUE_08BIT, ov13b10_global_regs[i][2])
    /\ call.ret \notin {"OK", "OOPS"} =>
         /\ ~power_on
         /\ usage_count = call.pre.usage_count

\* the bus refused the last entry of the program: the error is handed back,
\* power_on stays false and the reference is gone
C18_Witness ==
  /\ PoweredUp
  /\ call.ret = "EIO"
  /\ Len(trace) = Len(ov13b10_global_regs)
  /\ ~trace[Len(trace)].ok
  /\ ~power_on
  /\ usage_count = call.pre.usage_count

\* the cells a walk of write_array reads: the table and what lies behind it
walked == call.arg[1] \o call.arg[2]

\* the number of cells in front of the first one that holds REG_NULL
before_null ==
  Min({ i \in 1 .. Len(walked) : walked[i][1] = REG_NULL }) - 1

\* C19: a walk of ov13b10_write_array over cells that hold a REG_NULL
\* terminator issues one single-byte write per cell in front of the
\* terminator, in order, and nothing for the terminator or behind it; the
\* first refused write is the last one issued and its error is returned,
\* the writes before it having been accepted; with no refused write every
\* cell in front of the terminator is written and 0 is returned.
C19_WriteArrayUpToTerminator ==
  (call.op = "write_array" /\ \E i \in 1 .. Len(walked) : walked[i][1] = REG_NULL) =>
    /\ Len(trace) <= before_null
    /\ \A i \in 1 .. Len(trace) :
         /\ writes(trace[i], walked[i][1], OV13B10_REG_VALUE_08BIT, walked[i][2])
         /\ i < Len(trace) => trace[i].ok
    /\ call.ret = "OK" =>
         /\ Len(trace) = before_null
         /\ \A i \in 1 .. Len(trace) : trace[i].ok
    /\ call.ret # "OK" =>
         /\ call.ret = "EIO"
         /\ trace # << >>
         /\ ~trace[Len(trace)].ok

\* the walk of mode_2080x1170_regs with the terminator right behind the
\* table and the bus refusing the first write: one write, the error, and
\* the other entries unsent
C19_Witness ==
  /\ call.op = "write_array"
  /\ call.arg[1] = mode_2080x1170_regs
  /\ Len(call.arg[2]) > 0
  /\ call.arg[2][1][1] = REG_NULL
  /\ call.ret = "EIO"
  /\ Len(trace) = 1
  /\ ~trace[1].ok

\* C20: ov13b10_write_reg called with a length of 0 or above 4 returns
\* -EINVAL and issues no bus write, and so does ov13b10_read_reg.
C20_BadLengthRejected ==
  (call.op \in {"write_reg", "read_reg"} /\ (call.arg[2] = 0 \/ call.arg[2] > 4)) =>
    /\ call.ret = "EINVAL"
    /\ trace = << >>

\* val fits in len bytes; every value of the model fits in 4
fits(val, len) == len >= 4 \/ val < 256 ^ len

\* C21: over a bus double that stores bytes per address, for every address,
\* every length len in 1..4 and every value that fits in len bytes,
\* ov13b10_write_reg sends one message of len + 2 bytes (the address
\* big-endian, then the low len bytes of the value big-endian), and an
\* ov13b10_read_reg of that address and length that follows an accepted
\* write returns the value written.
C21_WriteReadRoundTrip ==
  /\ (call.op = "write_reg" /\ call.arg[2] \in 1 .. 4
        /\ fits(call.arg[3], call.arg[2])) =>
       /\ Len(trace) = 1
       /\ Len(trace[1].buf) = call.arg[2] + 2
       /\ trace[1].buf[1] = call.arg[1] \div 256
       /\ trace[1].buf[2] = call.arg[1] % 256
       /\ \A j \in 1 .. call.arg[2] :
            trace[1].buf[2 + j] = (call.arg[3] \div (256 ^ (call.arg[2] - j))) % 256
  /\ (call.op = "read_back" /\ call.ret = "OK" /\ call.arg[3].ret = "OK"
        /\ call.arg[1] = call.arg[3].reg /\ call.arg[2] = call.arg[3].len
        /\ fits(call.arg[3].val, call.arg[2])) =>
       call.out = << U32(call.arg[3].val) >>

\* 0x1234 written with length 2 and read back with length 2
C21_Witness ==
  /\ call.op = "read_back"
  /\ call.ret = "OK"
  /\ call.arg[3].ret = "OK"
  /\ call.arg[1] = call.arg[3].reg
  /\ call.arg[2] = 2
  /\ call.arg[3].len = 2
  /\ call.arg[3].val = \h1234
  /\ call.out = << U32(\h1234) >>

\* C22: for every analogue gain code g from 0x80 to 0x7C0, setting the gain
\* while the device is in use writes (g >> 8) & 0x07 to register 0x350a and
\* then g & 0xFF to register 0x350b, one byte each, and the two bytes give
\* g back: high * 256 + low = g.
C22_GainEncoding ==
  (call.op = "s_ctrl" /\ call.arg[1] = "ANALOGUE_GAIN" /\ InUseBefore) =>
    /\ ctrl_set \in \h80 .. \h7c0
    /\ Len(trace) = 2
    /\ trace[1].buf = << \h35, \h0a, (ctrl_set \div 256) % 8 >>
    /\ trace[2].buf = << \h35, \h0b, ctrl_set % 256 >>
    /\ trace[1].buf[3] * 256 + trace[2].buf[3] = ctrl_set

\* the gain set to 0x0300 on a streaming device: 0x03, then 0x00
C22_Witness ==
  /\ call.op = "s_ctrl"
  /\ call.arg = << "ANALOGUE_GAIN", \h0300 >>
  /\ InUseBefore
  /\ call.ret = "OK"
  /\ Len(trace) = 2
  /\ trace[1].buf = << \h35, \h0a, \h03 >>
  /\ trace[2].buf = << \h35, \h0b, \h00 >>
  /\ ctrl["ANALOGUE_GAIN"].val = \h0300

\* the register value the test-pattern index p stands for: 0x00 for 0,
\* otherwise p - 1 with bit 7 set
pattern_byte(p) == IF p = 0 THEN \h00 ELSE \h80 + (p - 1)

\* C23: for every test-pattern index p in 0..4, setting the test pattern
\* while the device is in use writes one byte to register 0x5080, 0x00 when
\* p = 0 and otherwise p - 1 with bit 7 set, and the byte written is the
\* byte of no other index.
C23_TestPatternEncoding ==
  (call.op = "s_ctrl" /\ call.arg[1] = "TEST_PATTERN" /\ InUseBefore
     /\ call.arg[2] \in 0 .. 4) =>
    /\ Len(trace) = 1
    /\ trace[1].buf = << \h50, \h80, pattern_byte(call.arg[2]) >>
    /\ \A q \in (0 .. 4) \ { call.arg[2] } : trace[1].buf[3] # pattern_byte(q)

\* index 4 set on a streaming device: 0x83 goes to 0x5080
C23_Witness ==
  /\ call.op = "s_ctrl"
  /\ call.arg = << "TEST_PATTERN", 4 >>
  /\ InUseBefore
  /\ call.ret = "OK"
  /\ Len(trace) = 1
  /\ trace[1].buf = << \h50, \h80, \h83 >>
  /\ ctrl["TEST_PATTERN"].val = 4

\* probe reached the identity check: its power-on sequence succeeded
ProbeIdentified ==
  /\ call.op = "probe"
  /\ Len(hw) >= 1
  /\ hw[1].by = "probe"
  /\ hw[1].ret = "OK"

\* the identity read went through and the device answered 0x56, 0x0d, 0x42
IdentityMatches ==
  /\ trace[1].ok
  /\ call.arg = << \h56, \h0d, \h42 >>

\* C24: the identity check of probe issues one transfer, a read of 3 bytes
\* at register 0x300a, and no write; it succeeds exactly when the read goes
\* through and returns 0x560d42; when it fails probe returns the error
\* after running the power-off sequence, which comes after the read, and
\* the device is not bound; the flags, the mode, the controls and the
\* usage count are as before probe either way.
C24_SensorIdCheck ==
  ProbeIdentified =>
    /\ Len(trace) = 1
    /\ "rd" \in DOMAIN trace[1]
    /\ trace[1].rd = 3
    /\ trace[1].buf = << \h30, \h0a >>
    /\ (call.ret # "ENODEV") = IdentityMatches
    /\ ~IdentityMatches =>
         /\ Len(hw) = 2
         /\ hw[2].by = "err_power_off"
         /\ hw[2].at = 1
         /\ follows_order(hw[2].steps, PowerOffOrder, res)
         /\ ~Bound
    /\ streaming = call.pre.streaming
    /\ power_on = call.pre.power_on
    /\ cur_mode = call.pre.cur_mode
    /\ ctrl = call.pre.ctrl
    /\ hblank = call.pre.hblank
    /\ usage_count = call.pre.usage_count

\* probe of an ov13b10 whose identity read the bus refused: -ENODEV after
\* the power-off sequence
C24_Witness ==
  /\ ProbeIdentified
  /\ call.arg = << \h56, \h0d, \h42 >>
  /\ ~trace[1].ok
  /\ call.ret = "ENODEV"
  /\ Len(hw) = 2
  /\ hw[2].by = "err_power_off"
  /\ hw[2].steps = __ov13b10_power_off(res)

\* C25: of two s_stream(on) calls that run at the same time on one
\* instance only one starts the stream: the call that begins while another
\* thread is inside s_stream(on) issues no bus transfer and takes no power
\* reference, and returns success.
C25_ConcurrentStartOnce ==
  \A t \in Tasks :
    tasks[t].overlap =>
      /\ tasks[t].msgs = << >>
      /\ ~tasks[t].took
      /\ tasks[t].ret = "OK"

\* C26: within one s_stream(on) the mode whose register program was
\* written, the mode the control setup pass reads for the vertical-blank
\* register and the active mode at the streaming write are the same.
C26_OneModePerStart ==
  \A t \in Tasks :
    /\ tasks[t].setup_mode # -1 => tasks[t].setup_mode = tasks[t].prog_mode
    /\ tasks[t].stream_mode # -1 => tasks[t].stream_mode = tasks[t].prog_mode

\* the references the flags account for
flag_refs == (IF power_on THEN 1 ELSE 0) + (IF streaming THEN 1 ELSE 0)

\* C27: after any sequence of s_power, s_stream and control-set calls that
\* returned, successful or failed, the usage count equals (1 if power_on)
\* + (1 if streaming); it is never negative, and a call that failed leaves
\* it as it was before the call.
C27_PowerReferenceBalance ==
  ~oops =>
    /\ usage_count = flag_refs
    /\ usage_count >= 0
    /\ (call.op \in {"s_power", "s_stream", "s_ctrl"} /\ call.ret # "OK") =>
         usage_count = call.pre.usage_count

\* s_stream(on) that failed on an instance with the power on: the one
\* reference of s_power is all that is held
C27_Witness ==
  /\ StartedStream
  /\ call.ret \notin {"OK", "OOPS"}
  /\ power_on
  /\ ~streaming
  /\ trace # << >>
  /\ usage_count = 1

\* C28: with no bus write refused, after any sequence of s_stream calls
\* and RKMODULE_SET_QUICK_STREAM ioctls the streaming flag is true exactly
\* when the last value written to the mode-control register 0x0100 is the
\* streaming value.
C28_StreamingFlagMatchesCtrlMode ==
  streaming = (last_ctrl_mode = << OV13B10_MODE_STREAMING >>)

====
